---- MODULE Spec2Model ----
(***************************************************************************)
(* TalkToTube: transcript -> chunks -> retrieval -> answer.                *)
(*                                                                         *)
(* Data representation.                                                    *)
(*   A text is a sequence of words; the string it stands for is the words  *)
(*   joined by single spaces (the form clean_transcript_text leaves).      *)
(*   <<>> is the empty string.  A word is a name whose character count,    *)
(*   upper-case count and kind (speech or non-speech tag) are given by     *)
(*   WordLen, WordUpper and IsTag.                                         *)
(*   Times of raw segments are in ticks (TicksPerSecond ticks a second),   *)
(*   so that format_timestamp's truncation to whole seconds is visible.    *)
(*   A rational is a pair <<numerator, denominator>>, denominator > 0.     *)
(***************************************************************************)
EXTENDS Integers, Sequences, FiniteSets, TLC

VARIABLES
    chunks,             \* QAAgent.chunks
    chunk_embeddings,   \* QAAgent.chunk_embeddings
    embeddings_cache,   \* EmbeddingRetriever.embeddings_cache: text -> vector
    OFFLINE_MODE,       \* Config.OFFLINE_MODE, read from the environment at import
    embedLog,           \* history: per text, the get_embedding calls since the last clear
    rk_in,              \* find_similar_chunks: the arguments of the call
    last,               \* observation of the last completed operation
    session,            \* history: "EMPTY" / "INDEXED"
    lastGood,           \* history: chunk list of the latest successful process_video
    ck_in,              \* chunk_transcript: the arguments of the run
    ck_segments,        \* chunk_transcript: segments (parsed lines)
    ck_i,               \* chunk_transcript: i
    ck_chunks,          \* chunk_transcript: chunks
    ck_windows,         \* history: the window [i, j) of every emitted chunk
    ck_pc,              \* chunk_transcript: "loop" / "done"
    rt_in,              \* rate_limit_retry: the configuration and the collaborator's behaviour
    rt_attempt,         \* rate_limit_retry: attempt
    rt_last_exception,  \* rate_limit_retry: last_exception
    rt_trace,           \* history: the attempts made and the sleeps taken, in order
    rt_pc,              \* rate_limit_retry: "loop" / "returned" / "raised"
    fn_in               \* the arguments of the function under evaluation

agentVars == <<chunks, chunk_embeddings, embeddings_cache, OFFLINE_MODE, embedLog,
               rk_in, last, session, lastGood>>
chunkVars == <<ck_in, ck_segments, ck_i, ck_chunks, ck_windows, ck_pc>>
retryVars == <<rt_in, rt_attempt, rt_last_exception, rt_trace, rt_pc>>
restVars == <<chunkVars, retryVars, fn_in>>
vars == <<agentVars, restVars>>

(***************************************************************************)
(* Bounds of the model.                                                    *)
(***************************************************************************)
TicksPerSecond == 2
MaxLines == 3
MaxRankChunks == 3
DigestLen == 2

(***************************************************************************)
(* Config (src/talktotube/config.py).                                      *)
(***************************************************************************)
CHUNK_SIZE_TOKENS == 1000
CHUNK_OVERLAP_PERCENT == <<1, 8>>
SIMILARITY_THRESHOLD == <<7, 20>>
TOP_K_CHUNKS == 5
MAX_RETRIES == 3
RETRY_BACKOFF_SECONDS == <<1, 2, 4>>
MAX_CONTEXT_LENGTH == 2000

(***************************************************************************)
(* Generic helpers.                                                        *)
(***************************************************************************)
Max(a, b) == IF a >= b THEN a ELSE b
Min(a, b) == IF a <= b THEN a ELSE b

RECURSIVE SumSeq(_)
SumSeq(s) == IF s = <<>> THEN 0 ELSE Head(s) + SumSeq(Tail(s))

SeqsUpTo(S, n) == UNION { [1..k -> S] : k \in 0..n }

\* floor(n * frac) for a rational frac >= 0: Python's int() of the product.
FloorMul(n, frac) == (n * frac[1]) \div frac[2]

(***************************************************************************)
(* Texts.                                                                  *)
(***************************************************************************)
\* The sentences of the demo transcript (src/talktotube/demo_data.py) are
\* single words here, with the lengths, upper-case letters and inner spaces
\* of the sentences they stand for.
DemoWords ==
    <<"demo01", "demo02", "demo03", "demo04", "demo05", "demo06", "demo07",
      "demo08", "demo09", "demo10", "demo11", "demo12", "demo13", "demo14",
      "demo15", "demo16", "demo17", "demo18", "demo19", "demo20">>
DemoLens ==
    <<49, 117, 119, 177, 148, 129, 124, 109, 133, 122,
      140, 135, 129, 102, 104, 102, 123, 99, 88, 112>>
DemoUppers == <<1, 1, 1, 2, 2, 1, 1, 1, 1, 1, 3, 5, 2, 1, 2, 1, 1, 1, 1, 2>>
DemoSpaces ==
    <<6, 17, 14, 29, 19, 17, 14, 15, 18, 12, 20, 16, 16, 15, 11, 17, 17, 12, 11, 15>>
IsDemoWord(w) == \E k \in 1..Len(DemoWords) : DemoWords[k] = w
DemoIndex(w) == CHOOSE k \in 1..Len(DemoWords) : DemoWords[k] = w

WordLen(w) ==
    IF IsDemoWord(w) THEN DemoLens[DemoIndex(w)]
    ELSE CASE w = "hi"      -> 2
           [] w = "word"    -> 4
           [] w = "Hello"   -> 5
           [] w = "sentences" -> 12
           [] w = "[Music]" -> 7
           [] w = "LONG"    -> 2400
           [] OTHER         -> 1

WordUpper(w) ==
    IF IsDemoWord(w) THEN DemoUppers[DemoIndex(w)]
    ELSE CASE w = "Hello"   -> 1
           [] w = "[Music]" -> 1
           [] w = "LONG"    -> 2400
           [] OTHER         -> 0

\* the spaces inside a word that stands for a sentence
WordSpaces(w) == IF IsDemoWord(w) THEN DemoSpaces[DemoIndex(w)] ELSE 0

IsTag(w) == w = "[Music]"

\* len(text)
TextLen(t) ==
    IF t = <<>> THEN 0
    ELSE SumSeq([k \in 1..Len(t) |-> WordLen(t[k])]) + (Len(t) - 1)

\* estimate_tokens
estimate_tokens(t) == TextLen(t) \div 4

(***************************************************************************)
(* Timestamps (src/talktotube/utils/text.py).                              *)
(* A rendered timestamp is the sequence of its numeric fields, <<m, s>> or *)
(* <<h, m, s>>; every field after the first is rendered with two digits.   *)
(***************************************************************************)
\* format_timestamp: the argument is in ticks, the fields are whole numbers.
format_timestamp(t) ==
    LET seconds == t \div TicksPerSecond
        hours   == seconds \div 3600
        minutes == (seconds % 3600) \div 60
        secs    == seconds % 60
    IN  IF hours > 0 THEN <<hours, minutes, secs>> ELSE <<minutes, secs>>

\* re.match(r'\[(\d{1,2}:\d{2}(?::\d{2})?)\]\s*(.*)', line): the first field
\* has one or two digits.  <<>> stands for a line without a leading stamp.
StampMatches(stamp) == /\ Len(stamp) \in {2, 3}
                       /\ stamp[1] < 100

\* parse_timestamp: seconds
parse_timestamp(stamp) ==
    IF Len(stamp) = 2 THEN stamp[1] * 60 + stamp[2]
    ELSE IF Len(stamp) = 3 THEN stamp[1] * 3600 + stamp[2] * 60 + stamp[3]
    ELSE 0

\* TranscriptChunk.format_timestamp: the argument is in seconds.
chunk_format_timestamp(seconds) ==
    LET hours   == seconds \div 3600
        minutes == (seconds % 3600) \div 60
        secs    == seconds % 60
    IN  IF hours > 0 THEN <<hours, minutes, secs>> ELSE <<minutes, secs>>

\* TranscriptChunk.get_citation: "[start-end]"
get_citation(chunk) ==
    <<chunk_format_timestamp(chunk.start_time), chunk_format_timestamp(chunk.end_time)>>

(***************************************************************************)
(* Segment Normalizer (src/talktotube/utils/text.py).                      *)
(***************************************************************************)
\* clean_transcript_text, on words: the tag words go, the rest stays joined
\* by single spaces; a result of fewer than 3 characters is dropped.
clean_transcript_text(text) ==
    LET kept == SelectSeq(text, LAMBDA w : ~IsTag(w))
    IN  IF text = <<>> THEN <<>>
        ELSE IF TextLen(kept) < 3 THEN <<>>
        ELSE kept

MIN_DURATION == 2 * TicksPerSecond

\* merge_short_segments: the loop over segments[1:], as a left fold.
RECURSIVE MergeLoop(_, _, _, _)
MergeLoop(rest, current_segment, merged, min_duration) ==
    IF rest = <<>> THEN Append(merged, current_segment)
    ELSE LET next_segment == Head(rest)
             next_end     == next_segment.start + next_segment.duration
             current_end  == current_segment.start + current_segment.duration
         IN  IF current_segment.duration < min_duration
             THEN MergeLoop(Tail(rest),
                            [text     |-> current_segment.text \o next_segment.text,
                             start    |-> current_segment.start,
                             duration |-> Max(next_end, current_end) - current_segment.start],
                            merged, min_duration)
             ELSE MergeLoop(Tail(rest), next_segment,
                            Append(merged, current_segment), min_duration)

\* mutant: the segments are returned as they came
merge_short_segments_NoMerge(segments, min_duration) == segments

merge_short_segments(segments, min_duration) ==
    IF segments = <<>> THEN <<>>
    ELSE MergeLoop(Tail(segments), Head(segments), <<>>, min_duration)

\* normalize_transcript: the lines of the returned string, each a stamp and
\* a text ("[stamp] text"); <<>> is the empty string.
RECURSIVE NormalizeSegments(_)
NormalizeSegments(transcript_data) ==
    IF transcript_data = <<>> THEN <<>>
    ELSE LET segment == Head(transcript_data)
             text    == clean_transcript_text(segment.text)
             rest    == NormalizeSegments(Tail(transcript_data))
         IN  IF text = <<>> THEN rest
             ELSE <<[text |-> text, start |-> segment.start,
                     duration |-> segment.duration]>> \o rest

\* "[{timestamp}] {text}" for every merged segment
FormatLines(merged_segments) ==
    [k \in 1..Len(merged_segments) |->
        [stamp |-> format_timestamp(merged_segments[k].start),
         text  |-> merged_segments[k].text]]

normalize_transcript(transcript_data) ==
    FormatLines(merge_short_segments(NormalizeSegments(transcript_data),
                                     MIN_DURATION))

(***************************************************************************)
(* Chunker (src/talktotube/utils/text.py, chunk_transcript).               *)
(* Indices i, j are the code's 0-based indices; segments[k] of the code is *)
(* segments[k + 1] here.                                                   *)
(***************************************************************************)
\* An optional argument is <<>> (None) or <<v>>; an optional fraction is <<>>
\* or the rational <<n, d>>.
None == <<>>
Some(v) == <<v>>

\* "x or default": None and 0 are both falsy
OrDefault(x, default) ==
    IF x = None THEN default ELSE IF x[1] = 0 THEN default ELSE x[1]
OrDefaultFraction(x, default) ==
    IF x = None THEN default ELSE IF x[1] = 0 THEN default ELSE x

\* the parsing loop: the lines that match, as segments
RECURSIVE ParseLines(_)
ParseLines(lines) ==
    IF lines = <<>> THEN <<>>
    ELSE LET line == Head(lines)
         IN  IF StampMatches(line.stamp)
             THEN <<[text |-> line.text,
                     start_time |-> parse_timestamp(line.stamp)]>>
                  \o ParseLines(Tail(lines))
             ELSE ParseLines(Tail(lines))

\* the inner while loop: the j it ends with (the chunk holds segments i..j-1)
RECURSIVE WindowEnd(_, _, _, _, _)
WindowEnd(segments, i, j, current_tokens, chunk_size) ==
    IF j < Len(segments) /\ current_tokens < chunk_size
    THEN LET segment_tokens == estimate_tokens(segments[j + 1].text)
         IN  IF current_tokens + segment_tokens <= chunk_size \/ j = i
             THEN WindowEnd(segments, i, j + 1, current_tokens + segment_tokens,
                            chunk_size)
             ELSE j
    ELSE j

\* " ".join(chunk_text_parts)
RECURSIVE JoinParts(_, _, _)
JoinParts(segments, i, j) ==
    IF i >= j THEN <<>>
    ELSE segments[i + 1].text \o JoinParts(segments, i + 1, j)

\* "if chunk_text.strip()": some part is not empty
EmitsChunk(segments, i, j) == \E k \in i..(j - 1) : segments[k + 1].text # <<>>

\* mutant: the chunk's end_time holds the time the window spans instead of the
\* start of its last line
MakeChunk_EndIsDuration(segments, i, j, chunk_id) ==
    [text       |-> JoinParts(segments, i, j),
     start_time |-> segments[i + 1].start_time,
     end_time   |-> IF j > i THEN segments[j].start_time - segments[i + 1].start_time
                    ELSE 0,
     chunk_id   |-> chunk_id]

\* the TranscriptChunk built from the window [i, j)
MakeChunk(segments, i, j, chunk_id) ==
    [text       |-> JoinParts(segments, i, j),
     start_time |-> segments[i + 1].start_time,
     end_time   |-> IF j > i THEN segments[j].start_time
                    ELSE segments[i + 1].start_time,
     chunk_id   |-> chunk_id]

\* mutant: the next window starts without the max(i + 1, ...) guard
NextStart_NoProgress(i, j, overlap_percent) ==
    j - Max(1, FloorMul(j - i, overlap_percent))

\* mutant: the next window starts one line after the end of the last one
NextStart_SkipsLine(i, j, overlap_percent) == Max(i + 1, j + 1)

\* "overlap_segments = max(1, int(len(chunk_text_parts) * overlap_percent))"
\* "i = max(i + 1, j - overlap_segments)"
NextStart(i, j, overlap_percent) ==
    LET overlap_segments == Max(1, FloorMul(j - i, overlap_percent))
    IN  Max(i + 1, j - overlap_segments)

\* the outer while loop, run to its end; ChunkBody is one pass through its
\* body, for the window [i, j) found by the inner loop
RECURSIVE ChunkLoop(_, _, _, _, _)
RECURSIVE ChunkBody(_, _, _, _, _, _)
ChunkBody(segments, i, j, out, chunk_size, overlap_percent) ==
    ChunkLoop(segments, NextStart(i, j, overlap_percent),
              IF EmitsChunk(segments, i, j)
              THEN Append(out, MakeChunk(segments, i, j, Len(out)))
              ELSE out,
              chunk_size, overlap_percent)

ChunkLoop(segments, i, out, chunk_size, overlap_percent) ==
    IF i < Len(segments)
    THEN ChunkBody(segments, i, WindowEnd(segments, i, i, 0, chunk_size), out,
                   chunk_size, overlap_percent)
    ELSE out

\* chunk_transcript after the parsing loop
ChunkSegments(segments, chunk_size, overlap_percent) ==
    IF segments = <<>> THEN <<>>
    ELSE ChunkLoop(segments, 0, <<>>, chunk_size, overlap_percent)

chunk_transcript(lines, chunk_size, overlap_percent) ==
    ChunkSegments(ParseLines(lines),
                  OrDefault(chunk_size, CHUNK_SIZE_TOKENS),
                  OrDefaultFraction(overlap_percent, CHUNK_OVERLAP_PERCENT))

(***************************************************************************)
(* Embedding/Retrieval Engine (src/talktotube/utils/retrieval.py).         *)
(*                                                                         *)
(* An embedding is [v, d]: the numerators v[k] and the denominators d[k]   *)
(* of its entries.  The embedding service's vectors have d[k] = 1.         *)
(* A collaborator's behaviour during one retried call is the number of     *)
(* attempts that fail before one succeeds (MAX_RETRIES: all of them fail)  *)
(* and the response of the one that succeeds; the exception of attempt n   *)
(* is n.                                                                   *)
(***************************************************************************)
\* rate_limit_retry: "for attempt in range(Config.MAX_RETRIES)"
RECURSIVE RetryLoop(_, _, _, _, _)
RetryLoop(attempt, fails, response, last_exception, sleeps) ==
    IF attempt < MAX_RETRIES
    THEN IF attempt >= fails
         THEN [raised |-> FALSE, result |-> response, exception |-> 0,
               calls |-> attempt + 1, sleeps |-> sleeps]
         ELSE RetryLoop(attempt + 1, fails, response, attempt + 1,
                        IF attempt < MAX_RETRIES - 1
                        THEN Append(sleeps, RETRY_BACKOFF_SECONDS[attempt + 1])
                        ELSE sleeps)
    ELSE [raised |-> TRUE, result |-> response, exception |-> last_exception,
          calls |-> attempt, sleeps |-> sleeps]

rate_limit_retry(fails, response) == RetryLoop(0, fails, response, 0, <<>>)

\* hashlib.md5(text.encode()).hexdigest(): the character codes of a digest of
\* DigestLen hexadecimal digits that depends on the text alone
HexCode(digit) == IF digit < 10 THEN 48 + digit ELSE 87 + digit
DigestOf(length, words) ==
    [k \in 1..DigestLen |-> HexCode((7 * length + 5 * words + 3 * k) % 16)]
HexDigest(text) == DigestOf(TextLen(text), Len(text))

\* the dimension of the mock embedding (embedding_dim), reduced
MockDim == 3

\* generate_mock_embedding: entry i is (char_val + feature_val) / 2 with
\* char_val = ord(text_hash[i % len(text_hash)]) / 255; the final division by
\* the norm, one positive factor common to all entries, is left out.
MockEntries(text_hash, text_features) ==
    [v |-> [k \in 1..MockDim |->
               text_hash[((k - 1) % Len(text_hash)) + 1] * text_features[((k - 1) % 3) + 1][2]
               + 255 * text_features[((k - 1) % 3) + 1][1]],
     d |-> [k \in 1..MockDim |-> 2 * 255 * text_features[((k - 1) % 3) + 1][2]]]

\* text_features: len(text) / 1000, spaces / len(text), upper-case / len(text)
TextFeatures(length, spaces, uppers) ==
    << <<length, 1000>>,
       IF length > 0 THEN <<spaces, length>> ELSE <<0, 1>>,
       IF length > 0 THEN <<uppers, length>> ELSE <<0, 1>> >>

generate_mock_embedding(text) ==
    MockEntries(HexDigest(text),
                TextFeatures(TextLen(text),
                             IF text = <<>> THEN 0
                             ELSE SumSeq([k \in 1..Len(text) |-> WordSpaces(text[k])])
                                  + (Len(text) - 1),
                             SumSeq([k \in 1..Len(text) |-> WordUpper(text[k])])))

\* np.zeros(384)
ZeroVector == [v |-> [k \in 1..MockDim |-> 0], d |-> [k \in 1..MockDim |-> 1]]

IsZeroVector(e) == \A k \in 1..Len(e.v) : e.v[k] = 0

\* np.array(response), flattened when it has more than one dimension; a
\* response is [ndim, rows], a 1-D response has one row
RECURSIVE Flatten(_)
Flatten(rows) == IF rows = <<>> THEN <<>> ELSE Head(rows) \o Flatten(Tail(rows))

FromResponse(response) ==
    LET data == IF response.ndim > 1 THEN Flatten(response.rows) ELSE response.rows[1]
    IN  [v |-> data, d |-> [k \in 1..Len(data) |-> 1]]

CachePut(cache, text, embedding) ==
    [t \in DOMAIN cache \cup {text} |-> IF t = text THEN embedding ELSE cache[t]]

\* what get_embedding returns after a miss: the vector e, cached, and the
\* retried call r that was made for it
Missed(text, cache, e, r) ==
    [embedding |-> e, cache |-> CachePut(cache, text, e), calls |-> r.calls,
     sleeps |-> r.sleeps, hit |-> FALSE, fallback |-> r.raised, raised |-> FALSE]

NoCall == [raised |-> FALSE, calls |-> 0, sleeps |-> <<>>]

\* the vector for the outcome r of the retried call: "except Exception" falls
\* back to the mock embedding
Fetched(text, r) ==
    IF r.raised THEN generate_mock_embedding(text) ELSE FromResponse(r.result)

\* mutant: the result is returned without being cached
GetEmbedding_NoCache(text, cache, offline, fails, response) ==
    IF offline
    THEN [embedding |-> generate_mock_embedding(text), cache |-> cache,
          calls |-> 0, sleeps |-> <<>>, hit |-> FALSE, fallback |-> FALSE,
          raised |-> FALSE]
    ELSE [embedding |-> Fetched(text, rate_limit_retry(fails, response)),
          cache |-> cache, calls |-> rate_limit_retry(fails, response).calls,
          sleeps |-> rate_limit_retry(fails, response).sleeps,
          hit |-> FALSE, fallback |-> rate_limit_retry(fails, response).raised,
          raised |-> FALSE]

\* mutant: a persistent failure falls back to the zero vector
GetEmbedding_ZeroFallback(text, cache, offline, fails, response) ==
    IF text \in DOMAIN cache
    THEN [embedding |-> cache[text], cache |-> cache, calls |-> 0, sleeps |-> <<>>,
          hit |-> TRUE, fallback |-> FALSE, raised |-> FALSE]
    ELSE IF offline
    THEN Missed(text, cache, generate_mock_embedding(text), NoCall)
    ELSE Missed(text, cache,
                IF rate_limit_retry(fails, response).raised THEN ZeroVector
                ELSE FromResponse(response),
                rate_limit_retry(fails, response))

\* get_embedding: the vector returned, the cache afterwards, the collaborator
\* calls made and the sleeps taken
GetEmbedding(text, cache, offline, fails, response) ==
    IF text \in DOMAIN cache
    THEN [embedding |-> cache[text], cache |-> cache, calls |-> 0, sleeps |-> <<>>,
          hit |-> TRUE, fallback |-> FALSE, raised |-> FALSE]
    ELSE IF offline
    THEN Missed(text, cache, generate_mock_embedding(text), NoCall)
    ELSE Missed(text, cache, Fetched(text, rate_limit_retry(fails, response)),
                rate_limit_retry(fails, response))

(***************************************************************************)
(* Cosine similarity and ranking (src/talktotube/utils/retrieval.py).      *)
(* A score is a rational.  The model's service vectors have integer norms, *)
(* so that dot / (norm1 * norm2) is computed exactly.  The cosine of a     *)
(* pair that involves a mock embedding is not computed in the model: the   *)
(* caller of FindSimilar passes it in (oracle), any value being possible.  *)
(***************************************************************************)
RatGE(a, b) == a[1] * b[2] >= b[1] * a[2]
RatGT(a, b) == a[1] * b[2] > b[1] * a[2]
RatEQ(a, b) == a[1] * b[2] = b[1] * a[2]

Dot(v1, v2) == SumSeq([k \in 1..Len(v1) |-> v1[k] * v2[k]])
\* np.linalg.norm
Norm(v) == CHOOSE n \in 0..Dot(v, v) : n * n = Dot(v, v)

IsExact(e) == \A k \in 1..Len(e.d) : e.d[k] = 1

\* cosine_similarity without the zero-norm guard: always divides
cosine_similarity_AlwaysDivides(vec1, vec2) ==
    <<Dot(vec1, vec2), Norm(vec1) * Norm(vec2)>>

\* cosine_similarity
cosine_similarity(vec1, vec2) ==
    LET norm1 == Norm(vec1)
        norm2 == Norm(vec2)
    IN  IF norm1 = 0 \/ norm2 = 0 THEN <<0, 1>>
        ELSE <<Dot(vec1, vec2), norm1 * norm2>>

Similarity(e1, e2, given) ==
    IF IsExact(e1) /\ IsExact(e2) THEN cosine_similarity(e1.v, e2.v) ELSE given

\* list.sort(key=score, reverse=True): stable, descending
RECURSIVE InsertDesc(_, _)
InsertDesc(x, sorted) ==
    IF sorted = <<>> THEN <<x>>
    ELSE IF RatGT(Head(sorted).score, x.score)
    THEN <<Head(sorted)>> \o InsertDesc(x, Tail(sorted))
    ELSE <<x>> \o sorted

RECURSIVE SortDesc(_)
SortDesc(s) == IF s = <<>> THEN <<>> ELSE InsertDesc(Head(s), SortDesc(Tail(s)))

\* s[:n] for n >= 0
Take(s, n) == SubSeq(s, 1, Min(n, Len(s)))

\* "(chunk, similarity)" for every chunk, in chunk order
Similarities(query_embedding, chs, embs, oracle) ==
    [k \in 1..Len(embs) |->
        [chunk |-> chs[k],
         score |-> Similarity(query_embedding, embs[k], oracle[k])]]

\* the sort, the threshold filter and the slice
Ranked(similarities, top_k, threshold, q) ==
    [raised |-> FALSE,
     result |-> Take(SelectSeq(SortDesc(similarities),
                               LAMBDA x : RatGE(x.score, threshold)),
                     top_k),
     similarities |-> similarities, cache |-> q.cache, embedded |-> TRUE,
     calls |-> q.calls, threshold |-> threshold, top_k |-> top_k]

\* find_similar_chunks after the length check, q being what get_embedding
\* returned for the query
RankWith(q, chs, embs, top_k, threshold, oracle) ==
    Ranked(Similarities(q.embedding, chs, embs, oracle), top_k, threshold, q)

\* mutant: the query is embedded before the lengths are compared
FindSimilar_EmbedsFirst(query, chs, embs, top_k_arg, threshold_arg, cache, offline, fails, response, oracle) ==
    IF Len(chs) # Len(embs)
    THEN [raised |-> TRUE, result |-> <<>>, similarities |-> <<>>,
          cache |-> GetEmbedding(query, cache, offline, fails, response).cache,
          embedded |-> TRUE,
          calls |-> GetEmbedding(query, cache, offline, fails, response).calls,
          threshold |-> OrDefaultFraction(threshold_arg, SIMILARITY_THRESHOLD),
          top_k |-> OrDefault(top_k_arg, TOP_K_CHUNKS)]
    ELSE RankWith(GetEmbedding(query, cache, offline, fails, response), chs, embs,
                  OrDefault(top_k_arg, TOP_K_CHUNKS),
                  OrDefaultFraction(threshold_arg, SIMILARITY_THRESHOLD), oracle)

\* find_similar_chunks: raised (ValueError) or the ranked list, with the
\* similarities it was made from, the cache afterwards and the embedding
\* call made for the query
FindSimilar(query, chs, embs, top_k_arg, threshold_arg, cache, offline, fails, response, oracle) ==
    IF Len(chs) # Len(embs)
    THEN [raised |-> TRUE, result |-> <<>>, similarities |-> <<>>,
          cache |-> cache, embedded |-> FALSE, calls |-> 0,
          threshold |-> OrDefaultFraction(threshold_arg, SIMILARITY_THRESHOLD),
          top_k |-> OrDefault(top_k_arg, TOP_K_CHUNKS)]
    ELSE RankWith(GetEmbedding(query, cache, offline, fails, response), chs, embs,
                  OrDefault(top_k_arg, TOP_K_CHUNKS),
                  OrDefaultFraction(threshold_arg, SIMILARITY_THRESHOLD), oracle)

\* get_embeddings_batch: behaviours[k] is the embedding service's behaviour
\* during the call for texts[k]
RECURSIVE BatchLoop(_, _, _, _, _)
RECURSIVE BatchAppend(_, _, _, _, _, _)
\* the loop body after get_embedding returned r (or raised)
BatchAppend(texts, k, acc, r, offline, behaviours) ==
    BatchLoop(texts, k + 1,
              [embeddings |-> Append(acc.embeddings,
                                     IF r.raised THEN ZeroVector ELSE r.embedding),
               cache      |-> r.cache,
               calls      |-> acc.calls + r.calls,
               fallbacks  |-> acc.fallbacks + (IF r.fallback THEN 1 ELSE 0)],
              offline, behaviours)

BatchLoop(texts, k, acc, offline, behaviours) ==
    IF k > Len(texts) THEN acc
    ELSE BatchAppend(texts, k, acc,
                     GetEmbedding(texts[k], acc.cache, offline, behaviours[k].fails,
                                  behaviours[k].response),
                     offline, behaviours)

get_embeddings_batch(texts, cache, offline, behaviours) ==
    BatchLoop(texts, 1, [embeddings |-> <<>>, cache |-> cache, calls |-> 0,
                         fallbacks |-> 0],
              offline, behaviours)

ChunkTextsOf(chs) == [k \in 1..Len(chs) |-> chs[k].text]

\* the agent's index once the batch b of embeddings has been computed
Indexed(new_chunks, old_embeddings, b) ==
    [chunks |-> new_chunks, chunk_embeddings |-> old_embeddings \o b.embeddings,
     cache |-> b.cache, calls |-> b.calls, fallbacks |-> b.fallbacks]

\* mutant: the chunks are added to the ones already indexed
IndexChunks_Appends(self_chunks, self_embeddings, chs, cache, offline, behaviours) ==
    Indexed(self_chunks \o chs, self_embeddings,
            get_embeddings_batch(ChunkTextsOf(chs), cache, offline, behaviours))

\* QAAgent.index_chunks: the agent's chunks and chunk_embeddings afterwards
IndexChunks(self_chunks, self_embeddings, chs, cache, offline, behaviours) ==
    IF chs = <<>>
    THEN [chunks |-> self_chunks, chunk_embeddings |-> self_embeddings,
          cache |-> cache, calls |-> 0, fallbacks |-> 0]
    ELSE Indexed(chs, <<>>,
                 get_embeddings_batch(ChunkTextsOf(chs), cache, offline, behaviours))

(***************************************************************************)
(* prepare_context (src/talktotube/utils/retrieval.py).  The context is    *)
(* the sequence of its parts; a part is the text kept of a chunk and its   *)
(* citation.  <<>> is the empty string.                                    *)
(***************************************************************************)
\* len() of a rendered timestamp: "MM:SS" or "HH:MM:SS"
StampLen(stamp) ==
    IF Len(stamp) = 3
    THEN (IF stamp[1] < 100 THEN 2 ELSE IF stamp[1] < 1000 THEN 3 ELSE 4) + 6
    ELSE 5

\* len(chunk.get_citation())
CitationLen(citation) == StampLen(citation[1]) + StampLen(citation[2]) + 3

\* len(s[:n])
SliceLen(length, n) == IF n >= 0 THEN Min(length, n) ELSE Max(0, length + n)

RECURSIVE ContextLoop(_, _, _, _)
RECURSIVE ContextAppend(_, _, _, _, _, _, _)
\* the loop body for a chunk that fits or is the first: text_len is
\* len(chunk.text), citation_len is len(citation)
ContextAppend(rest, context_parts, current_length, max_length, text_len, citation_len, truncated) ==
    ContextLoop(Tail(rest),
                Append(context_parts,
                       [chunk_id  |-> Head(rest).chunk.chunk_id,
                        kept      |-> IF truncated
                                      THEN SliceLen(text_len,
                                                    max_length - citation_len - 1)
                                      ELSE text_len,
                        citation  |-> get_citation(Head(rest).chunk),
                        length    |-> (IF truncated
                                       THEN SliceLen(text_len,
                                                     max_length - citation_len - 1)
                                       ELSE text_len) + 1 + citation_len,
                        truncated |-> truncated]),
                current_length
                + (IF truncated
                   THEN SliceLen(text_len, max_length - citation_len - 1)
                   ELSE text_len) + 1 + citation_len + 2,
                max_length)

\* the loop body up to the length test; len(chunk_text) is
\* text_len + 1 + citation_len
ContextFit(rest, context_parts, current_length, max_length, text_len, citation_len) ==
    IF current_length + (text_len + 1 + citation_len) + 2 > max_length
       /\ context_parts # <<>>
    THEN context_parts
    ELSE ContextAppend(rest, context_parts, current_length, max_length, text_len,
                       citation_len,
                       context_parts = <<>> /\ text_len + 1 + citation_len > max_length)

ContextLoop(rest, context_parts, current_length, max_length) ==
    IF rest = <<>> THEN context_parts
    ELSE ContextFit(rest, context_parts, current_length, max_length,
                    TextLen(Head(rest).chunk.text),
                    CitationLen(get_citation(Head(rest).chunk)))

prepare_context(similar_chunks, max_length_arg) ==
    LET max_length == OrDefault(max_length_arg, MAX_CONTEXT_LENGTH)
    IN  IF similar_chunks = <<>> THEN <<>>
        ELSE ContextLoop(similar_chunks, <<>>, 0, max_length)

\* len(context): the parts joined by "\n\n"
ContextLen(context) ==
    IF context = <<>> THEN 0
    ELSE SumSeq([k \in 1..Len(context) |-> context[k].length]) + 2 * (Len(context) - 1)

(***************************************************************************)
(* Answer Composer (src/talktotube/agents/qa.py).  An answer is [text,     *)
(* appended]: the string text followed by the citations of appended, each  *)
(* after one space.  A generation response is [text, mentions]: a string   *)
(* and the citations that occur in it.                                     *)
(***************************************************************************)
NO_CONTENT == "No content has been indexed for Q&A."
NOT_FOUND == "Not found in video."
GENERATION_ERROR == "I encountered an error while generating the answer."
PROCESSING_ERROR == "I encountered an error while processing your question."

\* clean_answer
clean_answer(answer) ==
    IF answer = "" THEN "I couldn't find an answer."
    ELSE IF answer \in {"none", "n/a", "not applicable"} THEN NOT_FOUND
    ELSE answer

\* generate_offline_answer: the keyword tests, on the words of the question
generate_offline_answer(question) ==
    LET has(words) == \E k \in 1..Len(question) : question[k] \in words
    IN  IF has({"what", "define", "explain"})
        THEN "This concept is explained in the video content with relevant examples."
        ELSE IF has({"how", "process", "work"})
        THEN "The process involves multiple steps as described in the video, including data preparation and model training."
        ELSE IF has({"why", "reason", "benefit"})
        THEN "This approach is beneficial because it provides accurate results and is widely applicable."
        ELSE IF has({"when", "time", "use"})
        THEN "This technique is typically used when you have sufficient data and clear objectives."
        ELSE "Based on the video content, this topic is covered with practical examples and explanations."

\* generate_answer after the retried call r: every exception ends in the
\* fixed error text
Generated(r) ==
    IF r.raised
    THEN [text |-> GENERATION_ERROR, mentions |-> <<>>, calls |-> r.calls,
          exhausted |-> TRUE]
    ELSE [text |-> clean_answer(r.result.text), mentions |-> r.result.mentions,
          calls |-> r.calls, exhausted |-> FALSE]

generate_answer(question, context, offline, generation) ==
    IF offline
    THEN [text |-> clean_answer(generate_offline_answer(question)), mentions |-> <<>>,
          calls |-> 0, exhausted |-> FALSE]
    ELSE Generated(rate_limit_retry(generation.fails, generation.response))

\* mutant: the generated text is never taken to hold a citation
Mentioned_Never(mentions, citations) == FALSE

\* mutant: the index is never taken to be empty
IndexIsEmpty_Never(self_chunks, self_embeddings) == FALSE

\* "if not self.chunks or not self.chunk_embeddings"
IndexIsEmpty(self_chunks, self_embeddings) ==
    self_chunks = <<>> \/ self_embeddings = <<>>

\* what answer_question returns on the paths that generate nothing
FixedAnswer(text, cache, embedded, calls) ==
    [answer |-> [text |-> text, appended |-> <<>>], citations |-> <<>>,
     cache |-> cache, raised |-> FALSE, embedded |-> embedded,
     embedding_calls |-> calls, generation_calls |-> 0, exhausted |-> FALSE,
     retrieved |-> 0, context |-> <<>>, mentions |-> <<>>, scores |-> <<>>]

\* the citations of the retrieved chunks
Citations(similar_chunks) ==
    [k \in 1..Len(similar_chunks) |-> get_citation(similar_chunks[k].chunk)]

\* "any(citation in answer for citation in citations)"
Mentioned(mentions, citations) ==
    \E k \in 1..Len(citations) :
       \E m \in 1..Len(mentions) : mentions[m] = citations[k]

\* the end of answer_question: the citations are added to the answer that
\* generate_answer returned
Compose(found, context, generated, citations) ==
    [answer |-> [text |-> generated.text,
                 appended |-> IF /\ generated.text # ""
                                 /\ generated.text # NOT_FOUND
                                 /\ citations # <<>>
                                 /\ ~Mentioned(generated.mentions, citations)
                              THEN citations ELSE <<>>],
     citations |-> citations, cache |-> found.cache, raised |-> FALSE,
     embedded |-> TRUE, embedding_calls |-> found.calls,
     generation_calls |-> generated.calls, exhausted |-> generated.exhausted,
     retrieved |-> Len(found.result), context |-> context,
     mentions |-> generated.mentions, scores |-> <<>>]

\* answer_question once the context has been prepared
AnswerFrom(question, found, context, offline, generation) ==
    IF context = <<>>
    THEN FixedAnswer(NOT_FOUND, found.cache, TRUE, found.calls)
    ELSE Compose(found, context,
                 generate_answer(question, context, offline, generation),
                 Citations(found.result))

\* history: the answer r with the score of every indexed chunk
Scored(r, found) ==
    [r EXCEPT !.scores = [k \in 1..Len(found.similarities) |->
                             found.similarities[k].score]]

\* mutant: the answer is generated from the best-scoring chunks, whatever
\* their scores
AnswerRetrieved_Unfiltered(question, similarity_threshold, found, offline, generation) ==
    IF found.raised
    THEN FixedAnswer(PROCESSING_ERROR, found.cache, found.embedded, found.calls)
    ELSE Scored(AnswerFrom(question, [found EXCEPT !.result = found.similarities],
                           prepare_context(found.similarities, None), offline,
                           generation),
                found)

\* answer_question once find_similar_chunks has returned found (or raised)
AnswerRetrieved(question, similarity_threshold, found, offline, generation) ==
    IF found.raised
    THEN FixedAnswer(PROCESSING_ERROR, found.cache, found.embedded, found.calls)
    ELSE IF found.result = <<>>
    THEN Scored(FixedAnswer(NOT_FOUND, found.cache, TRUE, found.calls), found)
    ELSE IF RatGT(similarity_threshold, found.result[1].score)
    THEN Scored(FixedAnswer(NOT_FOUND, found.cache, TRUE, found.calls), found)
    ELSE Scored(AnswerFrom(question, found, prepare_context(found.result, None),
                           offline, generation),
                found)

\* QAAgent.answer_question
answer_question(question, similarity_threshold_arg, top_k_arg, self_chunks, self_embeddings, cache, offline, embedding, generation, oracle) ==
    IF IndexIsEmpty(self_chunks, self_embeddings)
    THEN FixedAnswer(NO_CONTENT, cache, FALSE, 0)
    ELSE AnswerRetrieved(
             question,
             OrDefaultFraction(similarity_threshold_arg, SIMILARITY_THRESHOLD),
             FindSimilar(question, self_chunks, self_embeddings,
                         Some(OrDefault(top_k_arg, TOP_K_CHUNKS)),
                         OrDefaultFraction(similarity_threshold_arg,
                                           SIMILARITY_THRESHOLD),
                         cache, offline, embedding.fails, embedding.response, oracle),
             offline, generation)

\* QAAgent.clear_index, with the retriever's clear_cache
clear_index == [chunks |-> <<>>, chunk_embeddings |-> <<>>, cache |-> <<>>]

(***************************************************************************)
(* Summarizer (src/talktotube/agents/summarize.py).  The summarization     *)
(* service's behaviour during one summarize_text call is the number of     *)
(* attempts that fail.                                                     *)
(***************************************************************************)
\* mutant: a failure on every attempt is replaced by a fallback summary
summarize_text_Absorbs(blank, offline, fails) ==
    IF blank
    THEN [raised |-> FALSE, summary |-> "No content to summarize.", calls |-> 0,
          exhausted |-> FALSE]
    ELSE IF offline
    THEN [raised |-> FALSE, summary |-> "offline summary", calls |-> 0,
          exhausted |-> FALSE]
    ELSE LET r == rate_limit_retry(fails, "summary")
         IN  [raised |-> FALSE,
              summary |-> IF r.raised THEN "Failed to generate summary." ELSE r.result,
              calls |-> r.calls, exhausted |-> r.raised]

\* summarize_text: "except Exception: raise"; blank is "not text.strip()"
summarize_text(blank, offline, fails) ==
    IF blank
    THEN [raised |-> FALSE, summary |-> "No content to summarize.", calls |-> 0,
          exhausted |-> FALSE]
    ELSE IF offline
    THEN [raised |-> FALSE, summary |-> "offline summary", calls |-> 0,
          exhausted |-> FALSE]
    ELSE LET r == rate_limit_retry(fails, "summary")
         IN  [raised |-> r.raised, summary |-> r.result, calls |-> r.calls,
              exhausted |-> r.raised]

\* summarize_chunks: every chunk contributes its citation, so the combined
\* text of a non-empty chunk list is not blank
summarize_chunks(chs, offline, fails) ==
    IF chs = <<>>
    THEN [raised |-> FALSE, summary |-> "No content to summarize.", calls |-> 0,
          exhausted |-> FALSE]
    ELSE summarize_text(FALSE, offline, fails)

\* create_bullet_summary, up to the bullet formatting
create_bullet_summary(transcript_text, offline, fails) ==
    summarize_text(transcript_text = <<>>, offline, fails)

(***************************************************************************)
(* Pipeline Orchestrator (src/talktotube/pipeline.py).                     *)
(* A URL is the set of the demo keywords it contains.  The outcome of the  *)
(* transcript fetch is [ok, xml, data] (xml: the failure's message tells   *)
(* of an XML problem); the outcome of the audio transcription is           *)
(* [ok, data].  Transcript data is a sequence of [text, start, duration],  *)
(* times in ticks.                                                         *)
(***************************************************************************)
DemoStarts ==
    <<0, 7, 19, 33, 50, 65, 78, 90, 101, 115,
      128, 142, 155, 167, 178, 188, 199, 211, 221, 230>>
DemoDurations ==
    <<7, 12, 14, 17, 15, 13, 12, 11, 14, 13, 14, 13, 12, 11, 10, 11, 12, 10, 9, 10>>
\* the demo data's times are multiples of half a second
HalfSeconds(n) == (n * TicksPerSecond) \div 2

DEMO_TRANSCRIPT_DATA ==
    [k \in 1..Len(DemoWords) |->
        [text |-> <<DemoWords[k]>>, start |-> HalfSeconds(DemoStarts[k]),
         duration |-> HalfSeconds(DemoDurations[k])]]

get_demo_data == DEMO_TRANSCRIPT_DATA

is_demo_url(url) == url \cap {"demo", "test", "sample", "example"} # {}

\* steps 1 and 2 of process_video: the transcript data and how it was got
Acquire(url, fetch, audio) ==
    IF is_demo_url(url) \/ "demo" \in url
    THEN [data |-> get_demo_data, method |-> "demo_data"]
    ELSE IF fetch.ok
    THEN [data |-> fetch.data, method |-> "transcript_api"]
    ELSE IF fetch.xml
    THEN [data |-> get_demo_data, method |-> "demo_data_fallback"]
    ELSE IF audio.ok
    THEN [data |-> audio.data, method |-> "audio_transcription"]
    ELSE [data |-> get_demo_data, method |-> "demo_data_final_fallback"]

\* mutant: a run without chunks goes on
NoChunks_Never(chs) == FALSE

\* "if not chunks"
NoChunks(chs) == chs = <<>>

\* process_video raising error after steps
Failed(acquired, error, steps, nlines, nchunks, calls, exhausted, self_chunks, self_embeddings, cache) ==
    [raised |-> TRUE, error |-> error, steps |-> steps, method |-> acquired.method,
     result_chunks |-> <<>>, nlines |-> nlines, nchunks |-> nchunks,
     summary_calls |-> calls, summary_exhausted |-> exhausted,
     embedding_calls |-> 0, fallbacks |-> 0, chunks |-> self_chunks,
     chunk_embeddings |-> self_embeddings, cache |-> cache]

\* the return of process_video, ix being the index after step 7
Processed(acquired, transcript_text, chs, s1, s2, ix) ==
    [raised |-> FALSE, error |-> "",
     steps |-> <<"normalize", "chunk", "summarize", "index">>,
     method |-> acquired.method, result_chunks |-> chs,
     nlines |-> Len(transcript_text), nchunks |-> Len(chs),
     summary_calls |-> s1.calls + s2.calls,
     summary_exhausted |-> s1.exhausted \/ s2.exhausted,
     embedding_calls |-> ix.calls, fallbacks |-> ix.fallbacks,
     chunks |-> ix.chunks, chunk_embeddings |-> ix.chunk_embeddings,
     cache |-> ix.cache]

\* steps 6 and 7: s1 is what summarize_chunks did, s2 what
\* create_bullet_summary did (it is called when s1 did not raise)
SummarizeAndIndex(acquired, transcript_text, chs, s1, s2, behaviours, self_chunks, self_embeddings, cache, offline) ==
    IF s1.raised
    THEN Failed(acquired, "summarization failed",
                <<"normalize", "chunk", "summarize">>, Len(transcript_text),
                Len(chs), s1.calls, TRUE, self_chunks, self_embeddings, cache)
    ELSE IF s2.raised
    THEN Failed(acquired, "summarization failed",
                <<"normalize", "chunk", "summarize">>, Len(transcript_text),
                Len(chs), s1.calls + s2.calls, TRUE, self_chunks, self_embeddings,
                cache)
    ELSE Processed(acquired, transcript_text, chs, s1, s2,
                   IndexChunks(self_chunks, self_embeddings, chs, cache, offline,
                               behaviours))

\* from "if not chunks" on
ProcessChunks(acquired, transcript_text, chs, summary1, summary2, behaviours, self_chunks, self_embeddings, cache, offline) ==
    IF NoChunks(chs)
    THEN Failed(acquired, "Failed to create transcript chunks",
                <<"normalize", "chunk">>, Len(transcript_text), 0, 0, FALSE,
                self_chunks, self_embeddings, cache)
    ELSE SummarizeAndIndex(acquired, transcript_text, chs,
                           summarize_chunks(chs, offline, summary1),
                           create_bullet_summary(transcript_text, offline, summary2),
                           behaviours, self_chunks, self_embeddings, cache, offline)

\* from "if not transcript_text.strip()" on
ProcessText(acquired, transcript_text, summary1, summary2, behaviours, self_chunks, self_embeddings, cache, offline) ==
    IF transcript_text = <<>>
    THEN Failed(acquired, "Transcript normalization resulted in empty text",
                <<"normalize">>, 0, 0, 0, FALSE, self_chunks, self_embeddings, cache)
    ELSE ProcessChunks(acquired, transcript_text,
                       chunk_transcript(transcript_text, None, None),
                       summary1, summary2, behaviours, self_chunks, self_embeddings,
                       cache, offline)

\* from "if not transcript_data" on
ProcessData(acquired, summary1, summary2, behaviours, self_chunks, self_embeddings, cache, offline) ==
    IF acquired.data = <<>>
    THEN Failed(acquired, "No transcript data obtained", <<>>, 0, 0, 0, FALSE,
                self_chunks, self_embeddings, cache)
    ELSE ProcessText(acquired, normalize_transcript(acquired.data), summary1,
                     summary2, behaviours, self_chunks, self_embeddings, cache,
                     offline)

\* process_video: raised with its error, or the chunks of the result; the
\* steps taken, the collaborator calls made, and the agent's index and the
\* cache afterwards
process_video(url, fetch, audio, summary1, summary2, behaviours, self_chunks, self_embeddings, cache, offline) ==
    ProcessData(Acquire(url, fetch, audio), summary1, summary2, behaviours,
                self_chunks, self_embeddings, cache, offline)

(***************************************************************************)
(* chunk_transcript as a state machine: one action per iteration of the    *)
(* outer while loop, one for the return.                                   *)
(***************************************************************************)
ChunkTexts == {<<>>, <<"hi">>, <<"word">>, <<"sentences">>}
ChunkInputLines ==
    {[stamp |-> <<>>, text |-> <<"word">>],
     [stamp |-> <<0, 1>>, text |-> <<"word">>]}
    \cup [stamp : {<<0, 2>>}, text : ChunkTexts]
ChunkSizes == {None, Some(0), Some(1), Some(3)}
OverlapFractions == {None, <<0, 8>>, <<1, 2>>, <<7, 8>>}

retryIdle ==
    /\ rt_in = <<>>
    /\ rt_attempt = 0
    /\ rt_last_exception = <<>>
    /\ rt_trace = <<>>
    /\ rt_pc = "returned"

callIdle == retryIdle /\ fn_in = <<>>

agentIdle ==
    /\ chunks = <<>>
    /\ chunk_embeddings = <<>>
    /\ embeddings_cache = <<>>
    /\ OFFLINE_MODE = FALSE
    /\ embedLog = <<>>
    /\ rk_in = <<>>
    /\ last = [op |-> "none"]
    /\ session = "EMPTY"
    /\ lastGood = <<>>

ChunkInit ==
    /\ agentIdle
    /\ callIdle
    /\ ck_in \in [lines : SeqsUpTo(ChunkInputLines, MaxLines),
                  chunk_size : ChunkSizes,
                  overlap_percent : OverlapFractions]
    /\ ck_segments = ParseLines(ck_in.lines)
    /\ ck_i = 0
    /\ ck_chunks = <<>>
    /\ ck_windows = <<>>
    /\ ck_pc = IF ParseLines(ck_in.lines) = <<>> THEN "done" ELSE "loop"

ck_chunk_size == OrDefault(ck_in.chunk_size, CHUNK_SIZE_TOKENS)
ck_overlap_percent == OrDefaultFraction(ck_in.overlap_percent, CHUNK_OVERLAP_PERCENT)

\* one iteration of "while i < len(segments)"
ChunkIterate ==
    /\ ck_pc = "loop"
    /\ ck_i < Len(ck_segments)
    /\ LET j == WindowEnd(ck_segments, ck_i, ck_i, 0, ck_chunk_size)
       IN  /\ IF EmitsChunk(ck_segments, ck_i, j)
              THEN /\ ck_chunks' = Append(ck_chunks,
                                          MakeChunk(ck_segments, ck_i, j, Len(ck_chunks)))
                   /\ ck_windows' = Append(ck_windows, <<ck_i, j>>)
              ELSE UNCHANGED <<ck_chunks, ck_windows>>
           /\ ck_i' = NextStart(ck_i, j, ck_overlap_percent)
    /\ UNCHANGED <<ck_in, ck_segments, ck_pc, agentVars, retryVars, fn_in>>

\* the loop condition fails: "return chunks"
ChunkReturn ==
    /\ ck_pc = "loop"
    /\ ck_i >= Len(ck_segments)
    /\ ck_pc' = "done"
    /\ UNCHANGED <<ck_in, ck_segments, ck_i, ck_chunks, ck_windows, agentVars, retryVars, fn_in>>

ChunkNext == ChunkIterate \/ ChunkReturn

SpecChunk == ChunkInit /\ [][ChunkNext]_vars /\ WF_vars(ChunkNext)

\* C6: chunk_transcript terminates: every iteration of the outer loop strictly
\* increases the window start i (which never passes the number of parsed
\* lines), the loop reaches its return, and the number of emitted chunks never
\* exceeds the number of parsed lines.
C6_ChunkTerminates ==
    /\ [][(ck_pc = "loop" /\ ck_pc' = "loop")
            => (ck_i' > ck_i /\ ck_i' <= Len(ck_segments))]_vars
    /\ [](Len(ck_chunks) <= Len(ck_segments))
    /\ <>(ck_pc = "done")

C6_Witness ==
    /\ ck_pc = "done"
    /\ ck_in.chunk_size = Some(1)
    /\ ck_in.overlap_percent = <<7, 8>>
    /\ Len(ck_segments) = 3
    /\ Len(ck_chunks) = 3

\* segment k (0-based) is a source line of some emitted chunk
Covered(k) == \E w \in 1..Len(ck_windows) : ck_windows[w][1] <= k /\ k < ck_windows[w][2]
\* the 0-based indices of the segments whose text is not empty
SpokenLines == {k \in 0..(Len(ck_segments) - 1) : ck_segments[k + 1].text # <<>>}

\* C7 as stated: when the run is over and some line parsed, every parsed line
\* is a source line of an emitted chunk, consecutive chunks leave no gap, and
\* the last parsed line is in the last chunk.
C7_EveryLineCovered ==
    (ck_pc = "done" /\ ck_segments # <<>>) =>
        /\ \A k \in 0..(Len(ck_segments) - 1) : Covered(k)
        /\ \A w \in 1..(Len(ck_windows) - 1) : ck_windows[w + 1][1] <= ck_windows[w][2]
        /\ ck_windows # <<>>
        /\ ck_windows[Len(ck_windows)][2] = Len(ck_segments)

\* C7 amended: when the run is over, every parsed line with a non-empty text
\* is a source line of an emitted chunk, only lines with an empty text lie
\* between the end of one chunk and the start of the next, and the last
\* parsed line with a non-empty text is in the last chunk.
C7_SpokenLinesCovered ==
    ck_pc = "done" =>
        /\ \A k \in SpokenLines : Covered(k)
        /\ \A w \in 1..(Len(ck_windows) - 1) :
              \A k \in ck_windows[w][2]..(ck_windows[w + 1][1] - 1) : k \notin SpokenLines
        /\ \A k \in SpokenLines :
              (\A m \in SpokenLines : m <= k) =>
                 /\ ck_windows # <<>>
                 /\ ck_windows[Len(ck_windows)][1] <= k
                 /\ k < ck_windows[Len(ck_windows)][2]

\* a finished run with two chunks, not overlapping, that left an empty-text
\* line out
C7_Witness ==
    /\ ck_pc = "done"
    /\ Len(ck_windows) = 2
    /\ ck_windows[2][1] >= ck_windows[1][2]
    /\ \E k \in 0..(Len(ck_segments) - 1) : ~Covered(k)

(***************************************************************************)
(* The retriever's embedding operations: get_embedding and clear_cache.    *)
(***************************************************************************)
EmbedTexts == {<<>>, <<"Hello", "word">>}
EmbedResponses ==
    {[ndim |-> 1, rows |-> << <<1, 0>> >>],
     [ndim |-> 1, rows |-> << <<0, 0>> >>],
     [ndim |-> 2, rows |-> << <<3>>, <<4>> >>]}

chunkIdle ==
    /\ ck_in = <<>>
    /\ ck_segments = <<>>
    /\ ck_i = 0
    /\ ck_chunks = <<>>
    /\ ck_windows = <<>>
    /\ ck_pc = "done"

restIdle == chunkIdle /\ callIdle

\* history: the get_embedding calls for a text since the cache was last
\* cleared: how many (2 stands for two or more), the vector the first one
\* returned, whether every later one returned that same vector, and the
\* collaborator calls made by the first one and by the later ones
LogEmbedding(log, text, r) ==
    IF text \in DOMAIN log
    THEN [log EXCEPT ![text] =
            [n |-> 2, first |-> @.first,
             same |-> @.same /\ r.embedding = @.first,
             firstCalls |-> @.firstCalls,
             laterCalls |-> Min(@.laterCalls + r.calls, MAX_RETRIES)]]
    ELSE [t \in DOMAIN log \cup {text} |->
            IF t = text
            THEN [n |-> 1, first |-> r.embedding, same |-> TRUE,
                  firstCalls |-> r.calls, laterCalls |-> 0]
            ELSE log[t]]

EmbedInit ==
    /\ chunks = <<>>
    /\ chunk_embeddings = <<>>
    /\ embeddings_cache = <<>>
    /\ OFFLINE_MODE \in BOOLEAN
    /\ embedLog = <<>>
    /\ rk_in = <<>>
    /\ last = [op |-> "none"]
    /\ session = "EMPTY"
    /\ lastGood = <<>>
    /\ restIdle

\* retriever.get_embedding(text)
EmbedGet ==
    \E text \in EmbedTexts, fails \in 0..MAX_RETRIES, response \in EmbedResponses :
        LET r == GetEmbedding(text, embeddings_cache, OFFLINE_MODE, fails, response)
        IN  /\ embeddings_cache' = r.cache
            /\ embedLog' = LogEmbedding(embedLog, text, r)
            /\ last' = [op |-> "get_embedding", text |-> text, fails |-> fails,
                        raised |-> r.raised, embedding |-> r.embedding,
                        hit |-> r.hit, calls |-> r.calls, fallback |-> r.fallback]
            /\ UNCHANGED <<chunks, chunk_embeddings, OFFLINE_MODE, rk_in, session,
                           lastGood, restVars>>

\* retriever.clear_cache()
EmbedClear ==
    /\ embeddings_cache' = <<>>
    /\ embedLog' = <<>>
    /\ last' = [op |-> "clear_cache"]
    /\ UNCHANGED <<chunks, chunk_embeddings, OFFLINE_MODE, rk_in, session,
                   lastGood, restVars>>

EmbedNext == EmbedGet \/ EmbedClear

SpecEmbed == EmbedInit /\ [][EmbedNext]_vars

\* C9 as stated: a text embedded twice since the last cache clear got the
\* identical vector both times and one collaborator call was made in total.
C9_OneCollaboratorCall ==
    \A t \in DOMAIN embedLog :
        embedLog[t].n = 2 =>
            /\ embedLog[t].same
            /\ embedLog[t].firstCalls + embedLog[t].laterCalls = 1

\* C9 amended: a text embedded twice since the last cache clear got the
\* identical vector both times and the later calls, served from the cache,
\* made no collaborator call; the calls made in total are the attempts of the
\* first call: 1 to MAX_RETRIES of them, none in offline mode.
C9_SecondCallFromCache ==
    \A t \in DOMAIN embedLog :
        embedLog[t].n = 2 =>
            /\ embedLog[t].same
            /\ embedLog[t].laterCalls = 0
            /\ t \in DOMAIN embeddings_cache
            /\ embeddings_cache[t] = embedLog[t].first
            /\ IF OFFLINE_MODE THEN embedLog[t].firstCalls = 0
               ELSE embedLog[t].firstCalls \in 1..MAX_RETRIES

\* the second get_embedding of a text whose first one needed a retry
C9_Witness ==
    /\ last.op = "get_embedding"
    /\ last.hit
    /\ embedLog[last.text].n = 2
    /\ embedLog[last.text].firstCalls = 2

\* C10: get_embedding returns a vector and raises nothing, for every text
\* (the empty one too) and whatever the collaborator does; when every attempt
\* failed the vector is the pseudo-embedding of the text, a function of the
\* text alone, and it is not a zero vector.
C10_EmbedNeverRaises ==
    last.op = "get_embedding" =>
        /\ ~last.raised
        /\ Len(last.embedding.v) = Len(last.embedding.d)
        /\ (~OFFLINE_MODE /\ ~last.hit /\ last.fails = MAX_RETRIES) =>
              /\ last.embedding = generate_mock_embedding(last.text)
              /\ ~IsZeroVector(last.embedding)
              /\ last.calls = MAX_RETRIES

\* the empty string embedded while every attempt fails
C10_Witness ==
    /\ last.op = "get_embedding"
    /\ ~OFFLINE_MODE
    /\ ~last.hit
    /\ last.fails = MAX_RETRIES
    /\ last.text = <<>>

(***************************************************************************)
(* find_similar_chunks applied once to arguments drawn by RankInit.        *)
(***************************************************************************)
RankVectors == {<<1, 0>>, <<0, 1>>, <<3, 4>>, <<0, 0>>}
RankTopKs == {None, Some(0), Some(1), Some(2)}
RankThresholds == {None, <<0, 1>>, <<7, 10>>}
MockScores == {<<1, 5>>, <<1, 1>>}
RankQuery == <<"word">>
RankResponse == [ndim |-> 1, rows |-> << <<1, 0>> >>]

RankChunk(k) == [text |-> <<"word">>, start_time |-> k - 1, end_time |-> k - 1,
                 chunk_id |-> k - 1]

RankOracles(n, fails) ==
    IF fails = MAX_RETRIES THEN [1..n -> MockScores] ELSE {[k \in 1..n |-> <<0, 1>>]}

RankInputs ==
    UNION { UNION { [n          : {Len(embs), (Len(embs) + 1) % (MaxRankChunks + 1)},
                     embeddings : {embs},
                     top_k      : RankTopKs,
                     threshold  : RankThresholds,
                     fails      : {fails},
                     oracle     : RankOracles(Len(embs), fails)]
                    : fails \in {0, MAX_RETRIES} }
            : embs \in SeqsUpTo(RankVectors, MaxRankChunks) }

RankInit ==
    /\ chunks = <<>>
    /\ chunk_embeddings = <<>>
    /\ embeddings_cache = <<>>
    /\ OFFLINE_MODE = FALSE
    /\ embedLog = <<>>
    /\ rk_in \in RankInputs
    /\ last = [op |-> "none"]
    /\ session = "EMPTY"
    /\ lastGood = <<>>
    /\ restIdle

\* retriever.find_similar_chunks(query, chunks, chunk_embeddings, top_k, threshold)
RankCall ==
    /\ last.op = "none"
    /\ \E r \in {FindSimilar(RankQuery, [k \in 1..rk_in.n |-> RankChunk(k)],
                              [k \in 1..Len(rk_in.embeddings) |->
                                  [v |-> rk_in.embeddings[k],
                                   d |-> [m \in 1..Len(rk_in.embeddings[k]) |-> 1]]],
                              rk_in.top_k, rk_in.threshold, embeddings_cache,
                              OFFLINE_MODE, rk_in.fails, RankResponse,
                              rk_in.oracle)} :
           /\ embeddings_cache' = r.cache
           /\ last' = [op |-> "find_similar_chunks", raised |-> r.raised,
                       result |-> r.result, similarities |-> r.similarities,
                       embedded |-> r.embedded, calls |-> r.calls]
    /\ UNCHANGED <<chunks, chunk_embeddings, OFFLINE_MODE, embedLog, rk_in, session,
                   lastGood, restVars>>

RankNext == RankCall

SpecRank == RankInit /\ [][RankNext]_vars

\* the chunks of the last call that score at or above the threshold thr
Eligible(thr) ==
    {p \in 1..Len(last.similarities) : RatGE(last.similarities[p].score, thr)}
\* chunk p ranks before chunk q: a higher score, or the same score and an
\* earlier position in the chunk list
RanksBefore(p, q) ==
    \/ RatGT(last.similarities[p].score, last.similarities[q].score)
    \/ /\ RatEQ(last.similarities[p].score, last.similarities[q].score)
       /\ p < q
\* the position in the chunk list of entry m of the result
ResultPos(m) == last.result[m].chunk.chunk_id + 1

\* C8: for a caller-supplied top_k >= 0 and a caller-supplied threshold (0
\* included), the result of find_similar_chunks is exactly the first top_k
\* elements of the chunks scoring >= threshold, ordered by descending score
\* with ties in chunk order.
C8_RankExact ==
    (/\ last.op = "find_similar_chunks"
     /\ ~last.raised
     /\ rk_in.top_k # None
     /\ rk_in.threshold # None) =>
        LET k   == rk_in.top_k[1]
            thr == rk_in.threshold
            R   == last.result
        IN  /\ Len(R) = Min(k, Cardinality(Eligible(thr)))
            /\ \A m \in 1..Len(R) :
                  /\ ResultPos(m) \in Eligible(thr)
                  /\ R[m] = last.similarities[ResultPos(m)]
            /\ \A m, n \in 1..Len(R) : m < n => RanksBefore(ResultPos(m), ResultPos(n))
            /\ \A m \in 1..Len(R) :
                  \A p \in Eligible(thr) :
                     (\A n \in 1..Len(R) : ResultPos(n) # p) => RanksBefore(ResultPos(m), p)

(***************************************************************************)
(* The pipeline session: process_video, answer_question and clear_session  *)
(* called in any order.  session and lastGood are history variables: the   *)
(* lifecycle state, and the chunks of the result of the last process_video *)
(* that returned since the last clear_session.  last describes the last    *)
(* call: what it returned, the calls it made and the session state it was  *)
(* made in (state).                                                        *)
(***************************************************************************)
MusicTranscript == <<[text |-> <<"[Music]">>, start |-> 0, duration |-> 4 * TicksPerSecond]>>
\* a segment that starts 100 hours into the video
LateTranscript ==
    <<[text |-> <<"Hello", "word">>, start |-> 360000 * TicksPerSecond,
       duration |-> 4 * TicksPerSecond]>>
LongTranscript ==
    <<[text |-> <<"LONG">>, start |-> 0, duration |-> 4 * TicksPerSecond],
      [text |-> <<"LONG", "word">>, start |-> 4 * TicksPerSecond,
       duration |-> 4 * TicksPerSecond]>>
FetchedTranscripts == {<<>>, MusicTranscript, LateTranscript, LongTranscript}
TranscribedTranscripts == {<<>>, LongTranscript}

NoFetch == [ok |-> FALSE, xml |-> FALSE, data |-> <<>>]
NoAudio == [ok |-> FALSE, data |-> <<>>]
\* a URL is the set of the substrings it holds that process_video looks for;
\* the demo video's own URL holds "demo" and its video id
DEMO_URL == {"demo", "demo_ml_intro"}
ProcessInputs ==
    {[url |-> {"test"}, fetch |-> NoFetch, audio |-> NoAudio]}
    \cup {[url |-> DEMO_URL, fetch |-> NoFetch, audio |-> NoAudio]}
    \cup {[url |-> {"test"}, fetch |-> [ok |-> TRUE, xml |-> FALSE, data |-> LateTranscript],
           audio |-> NoAudio]}
    \cup {[url |-> {}, fetch |-> [ok |-> TRUE, xml |-> FALSE, data |-> d],
           audio |-> NoAudio] : d \in FetchedTranscripts}
    \cup {[url |-> {}, fetch |-> [ok |-> FALSE, xml |-> TRUE, data |-> <<>>],
           audio |-> NoAudio]}
    \cup {[url |-> {}, fetch |-> NoFetch, audio |-> [ok |-> TRUE, data |-> d]]
           : d \in TranscribedTranscripts}
    \cup {[url |-> {}, fetch |-> NoFetch, audio |-> NoAudio]}

\* the failing attempts of summarize_chunks and of create_bullet_summary
SummaryFails == {<<0, 0>>, <<MAX_RETRIES, 0>>, <<0, MAX_RETRIES>>}

ServiceAnswers == [fails |-> 0, response |-> [ndim |-> 1, rows |-> << <<1, 0>> >>]]
ServiceFails ==
    [fails |-> MAX_RETRIES, response |-> [ndim |-> 1, rows |-> << <<1, 0>> >>]]
\* the embedding service during a batch: one behaviour for each text; no
\* transcript of the model yields more than three chunks
ChunkEmbeddingBehaviours ==
    {<<ServiceAnswers, ServiceAnswers, ServiceAnswers>>,
     <<ServiceFails, ServiceAnswers, ServiceAnswers>>}
QueryEmbeddingBehaviours == {ServiceAnswers, ServiceFails}
GenerationBehaviours ==
    {[fails |-> 0, response |-> [text |-> "The answer.", mentions |-> <<>>]],
     [fails |-> 0, response |-> [text |-> "none", mentions |-> <<>>]],
     [fails |-> 0, response |-> [text |-> "The answer [00:00-01:55].",
                                 mentions |-> << <<<<0, 0>>, <<1, 55>>>> >>]],
     [fails |-> MAX_RETRIES, response |-> [text |-> "", mentions |-> <<>>]]}
Question == <<"hi">>
AnswerArgs == {[threshold |-> None, top_k |-> None],
               [threshold |-> <<0, 1>>, top_k |-> Some(1)]}
\* the cosines of the pairs that involve a mock embedding
Oracles == {<< <<1, 5>>, <<1, 5>>, <<1, 5>> >>, << <<1, 1>>, <<1, 1>>, <<1, 1>> >>}

Init ==
    /\ chunks = <<>>
    /\ chunk_embeddings = <<>>
    /\ embeddings_cache = <<>>
    /\ OFFLINE_MODE \in BOOLEAN
    /\ embedLog = <<>>
    /\ rk_in = <<>>
    /\ last = [op |-> "none"]
    /\ session = "EMPTY"
    /\ lastGood = <<>>
    /\ restIdle

\* TalkToTubePipeline.process_video(url)
ProcessVideo ==
    \E in \in ProcessInputs, summary \in SummaryFails,
       behaviours \in ChunkEmbeddingBehaviours :
       \E r \in {process_video(in.url, in.fetch, in.audio, summary[1], summary[2],
                                behaviours, chunks, chunk_embeddings,
                                embeddings_cache, OFFLINE_MODE)} :
           /\ chunks' = r.chunks
           /\ chunk_embeddings' = r.chunk_embeddings
           /\ embeddings_cache' = r.cache
           /\ session' = IF r.raised THEN session ELSE "INDEXED"
           /\ lastGood' = IF r.raised THEN lastGood ELSE r.result_chunks
           /\ last' = [op |-> "process_video", state |-> session,
                       raised |-> r.raised, error |-> r.error, steps |-> r.steps,
                       method |-> r.method, nlines |-> r.nlines,
                       nchunks |-> r.nchunks, summary_calls |-> r.summary_calls,
                       summary_exhausted |-> r.summary_exhausted,
                       embedding_calls |-> r.embedding_calls,
                       fallbacks |-> r.fallbacks, url |-> in.url,
                       fetch |-> in.fetch, audio |-> in.audio]
           /\ UNCHANGED <<OFFLINE_MODE, embedLog, rk_in, restVars>>

\* TalkToTubePipeline.answer_question(question, similarity_threshold, top_k)
AnswerQuestion ==
    \E args \in AnswerArgs, embedding \in QueryEmbeddingBehaviours,
       generation \in GenerationBehaviours, oracle \in Oracles :
       \E r \in {answer_question(Question, args.threshold, args.top_k, chunks,
                                  chunk_embeddings, embeddings_cache, OFFLINE_MODE,
                                  embedding, generation, oracle)} :
           /\ embeddings_cache' = r.cache
           /\ last' = [op |-> "answer_question", state |-> session,
                       raised |-> r.raised, answer |-> r.answer,
                       citations |-> r.citations,
                       embedding_calls |-> r.embedding_calls,
                       generation_calls |-> r.generation_calls,
                       exhausted |-> r.exhausted, retrieved |-> r.retrieved,
                       mentions |-> r.mentions, scores |-> r.scores,
                       threshold |-> args.threshold, context |-> r.context]
           /\ UNCHANGED <<chunks, chunk_embeddings, OFFLINE_MODE, embedLog, rk_in,
                          session, lastGood, restVars>>

\* TalkToTubePipeline.clear_session()
ClearSession ==
    /\ chunks' = clear_index.chunks
    /\ chunk_embeddings' = clear_index.chunk_embeddings
    /\ embeddings_cache' = clear_index.cache
    /\ session' = "EMPTY"
    /\ lastGood' = <<>>
    /\ last' = [op |-> "clear_session", state |-> session]
    /\ UNCHANGED <<OFFLINE_MODE, embedLog, rk_in, restVars>>

Next == ProcessVideo \/ AnswerQuestion \/ ClearSession

Spec == Init /\ [][Next]_vars

\* C1: in EMPTY state (before any successful process_video and after every
\* clear_session) answer_question returns the fixed nothing-indexed response
\* with an empty citation list, makes no embedding or generation call and
\* raises nothing.
C1_EmptyIndexAnswer ==
    (last.op = "answer_question" /\ last.state = "EMPTY") =>
        /\ ~last.raised
        /\ last.answer = [text |-> NO_CONTENT, appended |-> <<>>]
        /\ last.citations = <<>>
        /\ last.embedding_calls = 0
        /\ last.generation_calls = 0

\* a question asked in EMPTY state with the services reachable
C1_Witness ==
    /\ last.op = "answer_question"
    /\ last.state = "EMPTY"
    /\ ~OFFLINE_MODE
    /\ last.answer.text = NO_CONTENT

\* C2: the index is empty, or it is the chunk list of the last process_video
\* that returned since the last clear_session, with one embedding for each
\* chunk at the chunk's position; a process_video call that raises leaves the
\* index as it was.
C2_IndexIsLastResult ==
    /\ [](/\ Len(chunk_embeddings) = Len(chunks)
          /\ chunks = <<>> \/ chunks = lastGood
          /\ \A k \in 1..Len(chunks) :
                /\ chunks[k].text \in DOMAIN embeddings_cache
                /\ chunk_embeddings[k] = embeddings_cache[chunks[k].text])
    /\ [][(last'.op = "process_video" /\ last'.raised) =>
             /\ chunks' = chunks
             /\ chunk_embeddings' = chunk_embeddings]_vars

\* a second video replaced a first one whose first chunk got the mock
\* embedding, and then a run raised
C2_Witness ==
    /\ last.op = "process_video"
    /\ last.raised
    /\ last.state = "INDEXED"
    /\ Len(chunks) = 2
    /\ \E t \in DOMAIN embeddings_cache : Len(t) > 2
    /\ ~IsExact(chunk_embeddings[1])
    /\ IsExact(chunk_embeddings[2])

EmptyContentErrors ==
    {"No transcript data obtained",
     "Transcript normalization resulted in empty text",
     "Failed to create transcript chunks"}

\* C3 as stated: process_video never fails because a summarization or
\* embedding call failed; the run still returns and indexes the chunks, and
\* only the empty-content errors reach the caller.
C3_CollaboratorFailuresAbsorbed ==
    last.op = "process_video" =>
        /\ (last.summary_exhausted \/ last.fallbacks > 0) =>
               (~last.raised /\ chunks = lastGood /\ chunks # <<>>)
        /\ last.raised => last.error \in EmptyContentErrors

\* C3, amended: an embedding call that fails on every attempt never makes
\* process_video fail (the chunk gets the mock embedding and the chunks are
\* indexed); a summarization call that fails on every attempt is re-raised to
\* the caller before anything is indexed; the other failures that reach the
\* caller are the empty-content errors.
C3_OnlyEmbeddingFailuresAbsorbed ==
    last.op = "process_video" =>
        /\ last.fallbacks > 0 =>
               (~last.raised /\ chunks = lastGood /\ chunks # <<>>)
        /\ last.summary_exhausted <=>
               (last.raised /\ last.error \notin EmptyContentErrors)
        /\ last.summary_exhausted =>
               (last.embedding_calls = 0 /\ "index" \notin {last.steps[k] : k \in 1..Len(last.steps)})

\* a summarization call failed on every attempt and the run raised
C3_Witness ==
    /\ last.op = "process_video"
    /\ last.summary_exhausted
    /\ last.raised
    /\ last.summary_calls >= MAX_RETRIES

\* C4 as stated: when generation raises on every attempt, with a non-empty
\* index and a chunk above the threshold, answer_question raises nothing and
\* returns the fixed error message with an empty citation list.
C4_GenerationFailureNoCitations ==
    (last.op = "answer_question" /\ last.exhausted) =>
        /\ ~last.raised
        /\ last.answer = [text |-> GENERATION_ERROR, appended |-> <<>>]
        /\ last.citations = <<>>

StepOrder == <<"normalize", "chunk", "summarize", "index">>

\* C5: the steps of a process_video run are taken in the order normalize,
\* chunk, summarize, index; a run whose normalization yields no text or whose
\* chunking yields no chunks raises before any summarization or indexing
\* call, so that a run that returns has installed at least one chunk.
C5_FixedStepOrder ==
    last.op = "process_video" =>
        /\ Len(last.steps) <= Len(StepOrder)
        /\ last.steps = SubSeq(StepOrder, 1, Len(last.steps))
        /\ (Len(last.steps) >= 1 /\ last.nlines = 0) =>
               (last.raised /\ last.steps = <<"normalize">>)
        /\ (Len(last.steps) >= 2 /\ last.nchunks = 0) =>
               (last.raised /\ last.steps = <<"normalize", "chunk">>)
        /\ (last.raised /\ Len(last.steps) <= 2) =>
               (last.summary_calls = 0 /\ last.embedding_calls = 0)
        /\ ~last.raised => (last.nchunks > 0 /\ Len(chunks) = last.nchunks)

\* chunking yielded no chunk: the run raised after two steps, with the
\* services reachable
C5_Witness ==
    /\ last.op = "process_video"
    /\ last.steps = <<"normalize", "chunk">>
    /\ last.nlines > 0
    /\ last.raised
    /\ ~OFFLINE_MODE

(***************************************************************************)
(* rate_limit_retry, one loop iteration at a time, for a configured retry  *)
(* count and backoff schedule (Config.MAX_RETRIES,                         *)
(* Config.RETRY_BACKOFF_SECONDS).  The collaborator fails on its first     *)
(* rt_in.fails calls and succeeds afterwards.                              *)
(***************************************************************************)
MaxRetryCount == 5
MaxScheduleLen == 2
WaitTimes == {1, 3}

Schedules == SeqsUpTo(WaitTimes, MaxScheduleLen) \cup {RETRY_BACKOFF_SECONDS}
RetryInputs == [max_retries : 0..MaxRetryCount, backoff : Schedules,
                fails : 0..MaxRetryCount, response : {"response"}]

\* the exception the collaborator raises at an attempt, and Python's own
CollaboratorError(attempt) == [kind |-> "collaborator", attempt |-> attempt]
IndexError == [kind |-> "IndexError"]
TypeError == [kind |-> "TypeError"]

RetryInit ==
    /\ agentIdle
    /\ chunkIdle
    /\ fn_in = <<>>
    /\ rt_in \in RetryInputs
    /\ rt_attempt = 0
    /\ rt_last_exception = None
    /\ rt_trace = <<>>
    /\ rt_pc = "loop"

RetryReturned(result) ==
    [op |-> "rate_limit_retry", raised |-> FALSE, result |-> result]
RetryRaised(exception) ==
    [op |-> "rate_limit_retry", raised |-> TRUE, exception |-> exception]

\* one iteration of "for attempt in range(Config.MAX_RETRIES)": the call and,
\* when it fails, the except clause
RetryAttempt ==
    /\ rt_pc = "loop"
    /\ rt_attempt < rt_in.max_retries
    /\ IF rt_attempt >= rt_in.fails
       THEN \* "return func(*args, **kwargs)"
            /\ rt_trace' = Append(rt_trace, [ev |-> "call", attempt |-> rt_attempt,
                                             ok |-> TRUE])
            /\ rt_pc' = "returned"
            /\ last' = RetryReturned(rt_in.response)
            /\ UNCHANGED <<rt_attempt, rt_last_exception>>
       ELSE /\ rt_last_exception' = Some(CollaboratorError(rt_attempt))
            /\ IF rt_attempt < rt_in.max_retries - 1
               THEN IF rt_attempt + 1 \in DOMAIN rt_in.backoff
                    THEN \* "time.sleep(wait_time)"
                         /\ rt_trace' = rt_trace \o
                               << [ev |-> "call", attempt |-> rt_attempt, ok |-> FALSE],
                                  [ev |-> "sleep",
                                   seconds |-> rt_in.backoff[rt_attempt + 1]] >>
                         /\ rt_attempt' = rt_attempt + 1
                         /\ UNCHANGED <<rt_pc, last>>
                    ELSE \* RETRY_BACKOFF_SECONDS[attempt] is out of range: the
                         \* except clause raises IndexError
                         /\ rt_trace' = Append(rt_trace,
                               [ev |-> "call", attempt |-> rt_attempt, ok |-> FALSE])
                         /\ rt_pc' = "raised"
                         /\ last' = RetryRaised(IndexError)
                         /\ UNCHANGED rt_attempt
               ELSE /\ rt_trace' = Append(rt_trace,
                          [ev |-> "call", attempt |-> rt_attempt, ok |-> FALSE])
                    /\ rt_attempt' = rt_attempt + 1
                    /\ UNCHANGED <<rt_pc, last>>
    /\ UNCHANGED <<chunks, chunk_embeddings, embeddings_cache, OFFLINE_MODE, embedLog,
                   rk_in, session, lastGood, chunkVars, rt_in, fn_in>>

\* the loop is over: "raise last_exception" ("raise None" is a TypeError)
RetryExhausted ==
    /\ rt_pc = "loop"
    /\ rt_attempt >= rt_in.max_retries
    /\ rt_pc' = "raised"
    /\ last' = RetryRaised(IF rt_last_exception = None THEN TypeError
                           ELSE rt_last_exception[1])
    /\ UNCHANGED <<chunks, chunk_embeddings, embeddings_cache, OFFLINE_MODE, embedLog,
                   rk_in, session, lastGood, chunkVars, rt_in, rt_attempt,
                   rt_last_exception, rt_trace, fn_in>>

RetryNext == RetryAttempt \/ RetryExhausted

SpecRetry == RetryInit /\ [][RetryNext]_vars

\* the positions of the attempts in the trace
RetryCalls == {i \in 1..Len(rt_trace) : rt_trace[i].ev = "call"}

\* C11: for every retry count N and backoff schedule the call is attempted at
\* most N times; no attempt follows a success and its result is returned; a
\* failed attempt k is followed by a sleep of schedule[k] exactly when another
\* attempt follows; and when the attempts made have all failed the exception
\* raised to the caller is the last attempt's.
C11_RetryContract ==
    /\ Cardinality(RetryCalls) <= rt_in.max_retries
    /\ \A i \in RetryCalls : rt_trace[i].ok => i = Len(rt_trace)
    /\ rt_pc = "returned" =>
          /\ rt_trace # <<>>
          /\ rt_trace[Len(rt_trace)].ok
          /\ ~last.raised
          /\ last.result = rt_in.response
    /\ rt_pc # "loop" =>
          \A i \in RetryCalls :
              ~rt_trace[i].ok =>
                  ((\E j \in RetryCalls : j > i)
                      <=> /\ i < Len(rt_trace)
                          /\ rt_trace[i + 1].ev = "sleep"
                          /\ rt_trace[i].attempt + 1 \in DOMAIN rt_in.backoff
                          /\ rt_trace[i + 1].seconds
                                = rt_in.backoff[rt_trace[i].attempt + 1])
    /\ (rt_pc = "raised" /\ RetryCalls # {}) =>
          /\ last.raised
          /\ last.exception = CollaboratorError(rt_trace[Len(rt_trace)].attempt)

(***************************************************************************)
(* prepare_context called on its own, for ranked lists of chunks of        *)
(* several text lengths and citation widths and for several budgets.       *)
(***************************************************************************)
MaxContextChunks == 2

ContextTexts == {<<"hi">>, <<"demo01">>, <<"LONG">>}
ContextStarts == {0, 3600}
ContextChunks ==
    {[text |-> t, start_time |-> b, end_time |-> b + 10, chunk_id |-> 0]
        : t \in ContextTexts, b \in ContextStarts}
ContextLimits ==
    {None, Some(1), Some(10), Some(14), Some(34), Some(60), Some(500), Some(2500)}
ContextInputs ==
    [similar_chunks : SeqsUpTo([chunk : ContextChunks, score : {<<1, 1>>}],
                               MaxContextChunks),
     max_length : ContextLimits]

ContextInit ==
    /\ agentIdle
    /\ chunkIdle
    /\ retryIdle
    /\ fn_in \in ContextInputs

\* retriever.prepare_context(similar_chunks, max_length)
ContextCall ==
    /\ last.op = "none"
    /\ \E context \in {prepare_context(fn_in.similar_chunks, fn_in.max_length)} :
           last' = [op |-> "prepare_context", context |-> context,
                    length |-> ContextLen(context)]
    /\ UNCHANGED <<chunks, chunk_embeddings, embeddings_cache, OFFLINE_MODE, embedLog,
                   rk_in, session, lastGood, restVars>>

ContextNext == ContextCall

SpecContext == ContextInit /\ [][ContextNext]_vars

\* C12: for a non-empty ranked list and a positive max_length the context
\* returned by prepare_context is at most max_length characters long.
C12_ContextWithinBudget ==
    (/\ last.op = "prepare_context"
     /\ fn_in.similar_chunks # <<>>
     /\ fn_in.max_length # None
     /\ fn_in.max_length[1] > 0)
        => last.length <= fn_in.max_length[1]

\* the citations that occur in the answer text returned by answer_question
InAnswer(citation) ==
    \/ \E m \in 1..Len(last.mentions) : last.mentions[m] = citation
    \/ \E a \in 1..Len(last.answer.appended) : last.answer.appended[a] = citation

\* an answer generated from retrieved chunks, other than the not-found one
GeneratedAnswer ==
    /\ last.op = "answer_question"
    /\ last.retrieved > 0
    /\ last.answer.text # NOT_FOUND

\* C13 as stated: whenever answer_question returns a generated answer for a
\* question with retrieved chunks, the citation of every retrieved chunk
\* occurs in the returned answer text.
C13_EveryCitationInAnswer ==
    GeneratedAnswer =>
        \A k \in 1..Len(last.citations) : InAnswer(last.citations[k])

\* C13 amended: the citations are appended all together or not at all.  When
\* none of the retrieved chunks' citations occurs in the generated text, all
\* of them are appended in ranked order and so occur in the answer; when one
\* of them occurs already, nothing is appended.  The citation list returned
\* holds one citation for each retrieved chunk either way.
C13_CitationsAppendedTogether ==
    GeneratedAnswer =>
        /\ Len(last.citations) = last.retrieved
        /\ IF \E k \in 1..Len(last.citations) :
                 \E m \in 1..Len(last.mentions) : last.mentions[m] = last.citations[k]
           THEN last.answer.appended = <<>>
           ELSE /\ last.answer.appended = last.citations
                /\ \A k \in 1..Len(last.citations) : InAnswer(last.citations[k])

\* an answer whose generated text holds the citation of one of several
\* retrieved chunks
C13_Witness ==
    /\ GeneratedAnswer
    /\ last.retrieved > 1
    /\ last.mentions # <<>>
    /\ \E k \in 1..Len(last.citations) : ~InAnswer(last.citations[k])

\* the threshold of the question answered last: the caller's, or the
\* configured one when the caller gave none
QuestionThreshold ==
    IF last.threshold = None THEN SIMILARITY_THRESHOLD ELSE last.threshold

\* C14: when the index is not empty and no indexed chunk scores at or above
\* the threshold for the question, answer_question returns the fixed
\* not-found response with an empty citation list, without a generation call.
C14_NothingAboveThreshold ==
    (/\ last.op = "answer_question"
     /\ chunks # <<>>
     /\ chunk_embeddings # <<>>
     /\ Len(last.scores) = Len(chunks)
     /\ \A k \in 1..Len(last.scores) : ~RatGE(last.scores[k], QuestionThreshold))
        => /\ ~last.raised
           /\ last.answer = [text |-> NOT_FOUND, appended |-> <<>>]
           /\ last.citations = <<>>
           /\ last.generation_calls = 0

\* a question asked of an indexed video none of whose chunks reaches the
\* threshold, with the generation service reachable
C14_Witness ==
    /\ last.op = "answer_question"
    /\ chunks # <<>>
    /\ Len(last.scores) = Len(chunks)
    /\ \A k \in 1..Len(last.scores) : ~RatGE(last.scores[k], QuestionThreshold)
    /\ ~OFFLINE_MODE
    /\ last.answer.text = NOT_FOUND

\* the last process_video was given a URL for which neither the transcript
\* source nor the audio fallback yields a segment, by raising or by returning
\* none
NoSegmentsObtainable ==
    /\ last.op = "process_video"
    /\ ~(is_demo_url(last.url) \/ "demo" \in last.url)
    /\ ~last.fetch.ok \/ last.fetch.data = <<>>
    /\ ~last.audio.ok \/ last.audio.data = <<>>

\* C15: whenever neither the transcript source nor the audio fallback yields
\* any segments, by raising or by returning none, process_video does not
\* abort for want of transcript data: it goes on with the fallback data and
\* the acquisition tag names that fallback.
C15_AcquisitionFallsBack ==
    NoSegmentsObtainable =>
        /\ last.error # "No transcript data obtained"
        /\ last.method \in {"demo_data_fallback", "demo_data_final_fallback"}
        /\ last.summary_exhausted \/ ~last.raised

\* C16: every chunk emitted by chunk_transcript has end_time >= start_time,
\* in whatever order the timestamps of the parsed lines appear.
C16_ChunkEndsAfterStart ==
    \A k \in 1..Len(ck_chunks) : ck_chunks[k].end_time >= ck_chunks[k].start_time

(***************************************************************************)
(* merge_short_segments called on its own, for segment lists in any order  *)
(* of start times and for several minimum durations (times in ticks).      *)
(***************************************************************************)
MaxMergeSegments == 3

MergeSegments == [text : {<<"hi">>, <<"word">>}, start : {0, 2},
                  duration : {0, 1, MIN_DURATION}]
MergeInputs == [segments : SeqsUpTo(MergeSegments, MaxMergeSegments),
                min_duration : {0, 1, MIN_DURATION}]

MergeInit ==
    /\ agentIdle
    /\ chunkIdle
    /\ retryIdle
    /\ fn_in \in MergeInputs

\* merge_short_segments(segments, min_duration)
MergeCall ==
    /\ last.op = "none"
    /\ \E merged \in {merge_short_segments(fn_in.segments, fn_in.min_duration)} :
           last' = [op |-> "merge_short_segments", merged |-> merged]
    /\ UNCHANGED <<chunks, chunk_embeddings, embeddings_cache, OFFLINE_MODE, embedLog,
                   rk_in, session, lastGood, restVars>>

MergeNext == MergeCall

SpecMerge == MergeInit /\ [][MergeNext]_vars

\* the texts of segments lo..hi joined by spaces
RECURSIVE RunText(_, _, _)
RunText(segments, lo, hi) ==
    IF lo > hi THEN <<>> ELSE segments[lo].text \o RunText(segments, lo + 1, hi)

\* the duration accumulated over segments lo..hi: the run reaches from its
\* first segment's start to the latest end among its segments
RECURSIVE RunEnd(_, _, _)
RunEnd(segments, lo, hi) ==
    IF lo = hi THEN segments[lo].start + segments[lo].duration
    ELSE Max(segments[hi].start + segments[hi].duration, RunEnd(segments, lo, hi - 1))

\* the merged list is made of the runs that end at ends[1] < ends[2] < ...
IsRunsOf(merged, segments, ends) ==
    /\ ends[Len(merged)] = Len(segments)
    /\ \A k \in 1..Len(merged) :
          LET lo == IF k = 1 THEN 1 ELSE ends[k - 1] + 1
              hi == ends[k]
          IN  /\ lo <= hi
              /\ merged[k].text = RunText(segments, lo, hi)
              /\ merged[k].start = segments[lo].start
              /\ merged[k].duration = RunEnd(segments, lo, hi) - segments[lo].start

\* C17: every line emitted by merge_short_segments but the last one has an
\* accumulated duration >= min_duration; the lines are, in input order, the
\* space-joined texts of runs of consecutive input segments, each starting at
\* its run's first segment's start, and every input segment is in exactly one
\* run.
C17_MergedRuns ==
    last.op = "merge_short_segments" =>
        /\ \A k \in 1..(Len(last.merged) - 1) :
              last.merged[k].duration >= fn_in.min_duration
        /\ IF fn_in.segments = <<>> THEN last.merged = <<>>
           ELSE /\ last.merged # <<>>
                /\ Len(last.merged) <= Len(fn_in.segments)
                /\ \E ends \in [1..Len(last.merged) -> 1..Len(fn_in.segments)] :
                      IsRunsOf(last.merged, fn_in.segments, ends)

\* a merge of three segments into two lines, the first one made of two short
\* segments given out of time order
C17_Witness ==
    /\ last.op = "merge_short_segments"
    /\ Len(fn_in.segments) = 3
    /\ Len(last.merged) = 2
    /\ Len(last.merged[1].text) = 2
    /\ fn_in.segments[2].start < fn_in.segments[1].start
    /\ fn_in.min_duration > 0

(***************************************************************************)
(* clean_transcript_text and normalize_transcript on raw strings.  A raw   *)
(* string is the sequence of its characters; "note" is the music note.     *)
(* clean_transcript_text above is this cleaning restricted to texts whose  *)
(* non-speech tags are whole words.  A cleaned string is one word of a     *)
(* line's text, so that merge_short_segments joins strings with spaces.    *)
(***************************************************************************)
MaxRawLen == 3
MaxRawSegments == 2

RawAlphabet == {"[", "]", "(", ")", "<", ">", "note", "\n", "a"}
RawTexts == SeqsUpTo(RawAlphabet, MaxRawLen)

\* the end of the match of "open.*?close" that starts at s[1], or 0: the
\* first close after s[1], unless a newline comes before it ("." matches
\* every character but the newline)
SpanEnd(s, close) ==
    LET closes == {j \in 2..Len(s) : s[j] = close}
    IN  IF closes = {} THEN 0
        ELSE LET j == CHOOSE c \in closes : \A d \in closes : c <= d
             IN  IF \E k \in 2..(j - 1) : s[k] = "\n" THEN 0 ELSE j

\* re.sub(r'open.*?close', '', s): the matches are removed left to right
RECURSIVE RemoveSpans(_, _, _)
RemoveSpans(s, open, close) ==
    IF s = <<>> THEN <<>>
    ELSE IF Head(s) = open /\ SpanEnd(s, close) > 0
    THEN RemoveSpans(SubSeq(s, SpanEnd(s, close) + 1, Len(s)), open, close)
    ELSE <<Head(s)>> \o RemoveSpans(Tail(s), open, close)

IsSpace(c) == c \in {" ", "\n"}

\* str.lstrip() and str.strip()
RECURSIVE LStrip(_)
LStrip(s) == IF s # <<>> /\ IsSpace(Head(s)) THEN LStrip(Tail(s)) ELSE s
RECURSIVE Strip(_)
Strip(s) ==
    IF s # <<>> /\ IsSpace(s[Len(s)]) THEN Strip(SubSeq(s, 1, Len(s) - 1))
    ELSE LStrip(s)

\* re.sub(r'\s+', ' ', s)
RECURSIVE CollapseSpaces(_)
CollapseSpaces(s) ==
    IF s = <<>> THEN <<>>
    ELSE IF IsSpace(Head(s)) THEN <<" ">> \o CollapseSpaces(LStrip(s))
    ELSE <<Head(s)>> \o CollapseSpaces(Tail(s))

\* the end of clean_transcript_text: the whitespace clean-up and the test
\* for very short results
CleanedOrDropped(text) ==
    IF Len(Strip(CollapseSpaces(text))) < 3 THEN <<>> ELSE Strip(CollapseSpaces(text))

\* clean_transcript_text on a raw string
clean_transcript_chars(text) ==
    IF text = <<>> THEN <<>>
    ELSE CleanedOrDropped(
             RemoveSpans(RemoveSpans(RemoveSpans(RemoveSpans(text, "[", "]"),
                                                 "(", ")"),
                                     "<", ">"),
                         "note", "note"))

\* the first loop of normalize_transcript on raw strings: the segments whose
\* stripped and cleaned text is not empty
RECURSIVE RawSegments(_)
RawKept(segment, cleaned, rest) ==
    IF cleaned = <<>> THEN rest
    ELSE <<[text |-> <<cleaned>>, start |-> segment.start,
            duration |-> segment.duration]>> \o rest
RawSegments(transcript_data) ==
    IF transcript_data = <<>> THEN <<>>
    ELSE RawKept(Head(transcript_data),
                 clean_transcript_chars(Strip(Head(transcript_data).text)),
                 RawSegments(Tail(transcript_data)))

\* normalize_transcript on segments of raw strings
normalize_raw_transcript(transcript_data) ==
    FormatLines(merge_short_segments(RawSegments(transcript_data), MIN_DURATION))

\* a caption with a tag split over consecutive segments
BracketTexts == SeqsUpTo({"[", "]", "a"}, MaxRawLen)

\* the lists of raw strings: one string of any characters, or up to
\* MaxRawSegments strings of brackets and letters
RawTextLists ==
    {<<t>> : t \in RawTexts} \cup SeqsUpTo(BracketTexts, MaxRawSegments)

\* segment k starts at second k - 1; the segments of a list are all short or
\* all long enough
RawInputs ==
    UNION {{[k \in 1..Len(texts) |->
                [text |-> texts[k], start |-> (k - 1) * TicksPerSecond,
                 duration |-> d]] : texts \in RawTextLists}
           : d \in {0, MIN_DURATION}}

CleanInit ==
    /\ agentIdle
    /\ chunkIdle
    /\ retryIdle
    /\ fn_in \in RawInputs

\* normalize_transcript(transcript_data)
CleanCall ==
    /\ last.op = "none"
    /\ \E lines \in {normalize_raw_transcript(fn_in)} :
           last' = [op |-> "normalize_transcript", lines |-> lines]
    /\ UNCHANGED <<chunks, chunk_embeddings, embeddings_cache, OFFLINE_MODE, embedLog,
                   rk_in, session, lastGood, restVars>>

CleanNext == CleanCall

SpecClean == CleanInit /\ [][CleanNext]_vars

\* the characters of a line's text: its strings joined by spaces
RECURSIVE LineChars(_)
LineChars(text) ==
    IF text = <<>> THEN <<>>
    ELSE IF Len(text) = 1 THEN Head(text)
    ELSE Head(text) \o <<" ">> \o LineChars(Tail(text))

\* s holds a span that opens with open and closes with close
HasSpan(s, open, close) ==
    \E i \in 1..Len(s) : \E j \in (i + 1)..Len(s) : s[i] = open /\ s[j] = close

\* C18: for every segment list and every raw segment text the text of each
\* line of normalize_transcript's output holds no bracketed tag, no
\* parenthetical, no angle-bracket tag and no music-note span, and the output
\* has at most as many lines as there are input segments.
C18_NoTagsInOutput ==
    last.op = "normalize_transcript" =>
        /\ Len(last.lines) <= Len(fn_in)
        /\ \A k \in 1..Len(last.lines) :
              /\ ~HasSpan(LineChars(last.lines[k].text), "[", "]")
              /\ ~HasSpan(LineChars(last.lines[k].text), "(", ")")
              /\ ~HasSpan(LineChars(last.lines[k].text), "<", ">")
              /\ ~HasSpan(LineChars(last.lines[k].text), "note", "note")

\* C19: find_similar_chunks called with len(chunks) # len(chunk_embeddings)
\* raises (ValueError) before the query is embedded: no collaborator call is
\* made and the embedding cache is left as it was.
C19_MismatchFailsFast ==
    [][(rk_in # <<>> /\ rk_in.n # Len(rk_in.embeddings)) =>
          /\ last'.op = "find_similar_chunks"
          /\ last'.raised
          /\ ~last'.embedded
          /\ last'.calls = 0
          /\ embeddings_cache' = embeddings_cache]_vars

\* a call with one embedding more than chunks, or one fewer, has raised
C19_Witness ==
    /\ last.op = "find_similar_chunks"
    /\ rk_in.n # Len(rk_in.embeddings)
    /\ rk_in.n > 0
    /\ last.raised

(***************************************************************************)
(* The post-processing of a generated text (generate_answer's extraction   *)
(* of a string response, then clean_answer) on raw strings: sequences of   *)
(* characters.  The result is a fixed message or the cleaned characters.   *)
(* clean_answer above is this post-processing on texts already stripped    *)
(* and in lower case.                                                      *)
(***************************************************************************)
COULD_NOT_FIND == "I couldn't find an answer."

UpperLetters == <<"A", "E", "N", "O", "R", "S", "W", "Y">>
LowerLetters == <<"a", "e", "n", "o", "r", "s", "w", "y">>

\* str.lower() and str.upper() of one character, str.islower()
LowerChar(c) ==
    IF \E k \in 1..Len(UpperLetters) : UpperLetters[k] = c
    THEN LowerLetters[CHOOSE k \in 1..Len(UpperLetters) : UpperLetters[k] = c]
    ELSE c
UpperChar(c) ==
    IF \E k \in 1..Len(LowerLetters) : LowerLetters[k] = c
    THEN UpperLetters[CHOOSE k \in 1..Len(LowerLetters) : LowerLetters[k] = c]
    ELSE c
IsLowerChar(c) == \E k \in 1..Len(LowerLetters) : LowerLetters[k] = c
Lower(s) == [k \in 1..Len(s) |-> LowerChar(s[k])]

StartsWith(s, prefix) ==
    Len(s) >= Len(prefix) /\ SubSeq(s, 1, Len(prefix)) = prefix

AnswerEcho == <<"a", "n", "s", "w", "e", "r", ":">>
NoAnswerTexts ==
    {<<>>, <<"n", "o", "n", "e">>, <<"n", "/", "a">>,
     <<"n", "o", "t", " ", "a", "p", "p", "l", "i", "c", "a", "b", "l", "e">>}

Cleaned(chars) == [fixed |-> FALSE, text |-> "", chars |-> chars]
FixedText(text) == [fixed |-> TRUE, text |-> text, chars |-> <<>>]

\* clean_answer from "Handle common model responses" on
Capitalized(answer) ==
    IF Lower(answer) \in NoAnswerTexts THEN FixedText(NOT_FOUND)
    ELSE IF answer # <<>> /\ IsLowerChar(answer[1])
    THEN Cleaned(<<UpperChar(answer[1])>> \o Tail(answer))
    ELSE Cleaned(answer)

\* clean_answer after the strip: the echo of the prompt is removed
WithoutEcho(answer) ==
    IF StartsWith(Lower(answer), AnswerEcho)
    THEN Capitalized(Strip(SubSeq(answer, Len(AnswerEcho) + 1, Len(answer))))
    ELSE Capitalized(answer)

\* clean_answer on a raw string
clean_answer_chars(answer) ==
    IF answer = <<>> THEN FixedText(COULD_NOT_FIND)
    ELSE WithoutEcho(Strip(answer))

\* generate_answer from a string response on: "answer = result.strip()",
\* then clean_answer
PostProcess(result) == clean_answer_chars(Strip(result))

\* generated texts: whitespace, an echo of the prompt's "Answer:", whitespace,
\* a body and whitespace
AnswerBodies ==
    {<<>>,
     <<"n", "o", "n", "e">>, <<"N", "o", "n", "e">>, <<"N", "O", "N", "E">>,
     <<"n", "/", "a">>, <<"N", "/", "A">>, <<"N", "/", "a">>,
     <<"y", "e", "s">>, <<"Y", "e", "s">>, <<"n", "o">>}
AnswerEchoes ==
    {<<>>, AnswerEcho, <<"A", "n", "s", "w", "e", "r", ":">>,
     <<"A", "N", "S", "W", "E", "R", ":">>}
GeneratedTexts ==
    [lead : {<<>>, <<" ">>, <<"\n">>}, echo : AnswerEchoes, mid : {<<>>, <<" ">>},
     body : AnswerBodies, trail : {<<>>, <<" ">>, <<" ", "\n">>}]
GeneratedChars(g) == g.lead \o g.echo \o g.mid \o g.body \o g.trail

PostInit ==
    /\ agentIdle
    /\ chunkIdle
    /\ retryIdle
    /\ fn_in \in GeneratedTexts

\* the post-processing of the generated text
PostCall ==
    /\ last.op = "none"
    /\ \E answer \in {PostProcess(GeneratedChars(fn_in))} :
           last' = [op |-> "clean_answer", answer |-> answer]
    /\ UNCHANGED <<chunks, chunk_embeddings, embeddings_cache, OFFLINE_MODE, embedLog,
                   rk_in, session, lastGood, restVars>>

PostNext == PostCall

SpecPost == PostInit /\ [][PostNext]_vars

\* C20: every generated text that is empty, "none" or "n/a", in any letter
\* case, with or without surrounding whitespace or a leading "answer:" echo,
\* is mapped to the one fixed not-found response.
C20_NoAnswerIsNotFound ==
    (/\ last.op = "clean_answer"
     /\ Lower(fn_in.body) \in {<<>>, <<"n", "o", "n", "e">>, <<"n", "/", "a">>})
        => last.answer = FixedText(NOT_FOUND)

\* ---------------------------------------------------------------------------
\* cosine_similarity on its own: pairs of vectors of equal dimension
\* ---------------------------------------------------------------------------
MaxDim == 2
CosineComponents == {-4, -3, 0, 3, 4}

\* the vectors whose Euclidean norm is an integer, so that Norm is exact
CosineVectors(dim) ==
    {v \in [1..dim -> CosineComponents] : \E n \in 0..Dot(v, v) : n * n = Dot(v, v)}

CosineInputs ==
    UNION {[vec1 : CosineVectors(dim), vec2 : CosineVectors(dim)] : dim \in 1..MaxDim}

CosineInit ==
    /\ agentIdle
    /\ chunkIdle
    /\ retryIdle
    /\ fn_in \in CosineInputs

\* cosine_similarity(vec1, vec2) and cosine_similarity(vec2, vec1)
CosineCall ==
    /\ last.op = "none"
    /\ \E forward \in {cosine_similarity(fn_in.vec1, fn_in.vec2)} :
       \E backward \in {cosine_similarity(fn_in.vec2, fn_in.vec1)} :
           last' = [op |-> "cosine_similarity", forward |-> forward,
                    backward |-> backward]
    /\ UNCHANGED <<chunks, chunk_embeddings, embeddings_cache, OFFLINE_MODE, embedLog,
                   rk_in, session, lastGood, restVars>>

CosineNext == CosineCall

SpecCosine == CosineInit /\ [][CosineNext]_vars

\* C21: the similarity of two vectors of equal dimension is the same in both
\* argument orders, and it is the literal 0.0 (numerator 0 over denominator 1,
\* no quotient formed) whenever either vector has zero norm.
C21_SymmetricAndZero ==
    last.op = "cosine_similarity" =>
        /\ last.forward = last.backward
        /\ (Norm(fn_in.vec1) = 0 \/ Norm(fn_in.vec2) = 0) => last.forward = <<0, 1>>

\* a zero vector has been compared with a non-zero one
C21_Witness ==
    /\ last.op = "cosine_similarity"
    /\ Norm(fn_in.vec1) = 0
    /\ Norm(fn_in.vec2) # 0
    /\ last.forward = <<0, 1>>

\* ---------------------------------------------------------------------------
\* The windows of chunk_transcript (SpecChunk)
\* ---------------------------------------------------------------------------
\* the token estimates of segments i..j-1 (0-based), summed
RECURSIVE WindowTokens(_, _, _)
WindowTokens(segments, i, j) ==
    IF i >= j THEN 0
    ELSE estimate_tokens(segments[i + 1].text) + WindowTokens(segments, i + 1, j)

\* the target size the caller asked for (the configured one when none is given)
TargetSize == IF ck_in.chunk_size = None THEN CHUNK_SIZE_TOKENS ELSE ck_in.chunk_size[1]

\* the largest j whose window [i, j) stays at or under the target, or i + 1
LargestEnd(segments, i, target) ==
    IF WindowTokens(segments, i, i + 1) > target THEN i + 1
    ELSE CHOOSE j \in (i + 1)..Len(segments) :
            /\ WindowTokens(segments, i, j) <= target
            /\ \A m \in (j + 1)..Len(segments) : WindowTokens(segments, i, m) > target

\* C22: every emitted chunk holds the lines i..j-1 where j is the largest index
\* whose summed token estimate stays at or under the target size, or i + 1
\* when line i alone exceeds the target.
C22_WindowIsLargest ==
    \A w \in 1..Len(ck_windows) :
        ck_windows[w][2] = LargestEnd(ck_segments, ck_windows[w][1], TargetSize)

\* ---------------------------------------------------------------------------
\* chunk_transcript on long transcripts: up to MaxLongLines lines of one
\* token each, stamped one second apart
\* ---------------------------------------------------------------------------
MaxLongLines == 17
LongChunkSizes == {None, Some(4), Some(16)}

LongLines(n) == [k \in 1..n |-> [stamp |-> <<0, k>>, text |-> <<"word">>]]

LongChunkInit ==
    /\ agentIdle
    /\ callIdle
    /\ \E n \in 1..MaxLongLines :
          /\ ck_in \in [lines : {LongLines(n)},
                        chunk_size : LongChunkSizes,
                        overlap_percent : OverlapFractions]
          /\ ck_segments = ParseLines(LongLines(n))
    /\ ck_i = 0
    /\ ck_chunks = <<>>
    /\ ck_windows = <<>>
    /\ ck_pc = "loop"

SpecLongChunk == LongChunkInit /\ [][ChunkNext]_vars /\ WF_vars(ChunkNext)

\* the overlap fraction the caller asked for (the configured one when none is
\* given)
CallerFraction ==
    IF ck_in.overlap_percent = None THEN CHUNK_OVERLAP_PERCENT ELSE ck_in.overlap_percent

\* C23: after a chunk that consumed lines [i, j) the next window starts at
\* max(i + 1, j - max(1, floor((j - i) * overlap_fraction))), computed with
\* the fraction the caller passed, 0 included.
C23_NextStartFromCallerFraction ==
    [][(ck_pc = "loop" /\ ck_i' # ck_i) =>
          LET j == WindowEnd(ck_segments, ck_i, ck_i, 0, ck_chunk_size)
          IN  ck_i' = Max(ck_i + 1, j - Max(1, FloorMul(j - ck_i, CallerFraction)))]_vars

\* ---------------------------------------------------------------------------
\* The blocks prepare_context puts into the context (SpecContext)
\* ---------------------------------------------------------------------------
\* len(f"{chunk.text} {citation}")
BlockLen(item) == TextLen(item.chunk.text) + 1 + CitationLen(get_citation(item.chunk))

\* the length of the first n blocks joined by blank-line separators
JoinedLen(similar_chunks, n) ==
    SumSeq([k \in 1..n |-> BlockLen(similar_chunks[k])]) + 2 * (n - 1)

\* the maximum length the caller asked for (the configured one when none is
\* given)
CallerMaxLength ==
    IF fn_in.max_length = None THEN MAX_CONTEXT_LENGTH ELSE fn_in.max_length[1]

\* the length of the longest prefix that fits, the first block always counted
LongestPrefix(similar_chunks, max_length) ==
    CHOOSE n \in 1..Len(similar_chunks) :
        /\ n = 1 \/ JoinedLen(similar_chunks, n) <= max_length
        /\ \A m \in (n + 1)..Len(similar_chunks) :
              JoinedLen(similar_chunks, m) > max_length

\* C24: the context holds the blocks of the longest prefix of the ranked list
\* whose joined length is at most the maximum, the first block always
\* included: a block is left out only if the context with it would be longer
\* than the maximum.
C24_LongestPrefixThatFits ==
    (last.op = "prepare_context" /\ fn_in.similar_chunks # <<>>) =>
        Len(last.context) = LongestPrefix(fn_in.similar_chunks, CallerMaxLength)

\* ---------------------------------------------------------------------------
\* The prompt generate_answer hands to the generation collaborator.  A string
\* is given by its length; the prompt is the template with the context and
\* the question put in, so its length is the sum of the three.
\* ---------------------------------------------------------------------------
\* len(Config.QA_PROMPT_TEMPLATE.format(context="", question=""))
TEMPLATE_LENGTH == 163
\* "Buffer for template"
TEMPLATE_BUFFER == 200

\* Config.QA_PROMPT_TEMPLATE.format(context=..., question=...)
FormatPrompt(context_len, question_len) ==
    [context |-> context_len, question |-> question_len,
     length |-> TEMPLATE_LENGTH + context_len + question_len]

\* the prompt built by generate_answer before the generation call
build_prompt(question_len, context_len) ==
    IF FormatPrompt(context_len, question_len).length > MAX_CONTEXT_LENGTH
    THEN FormatPrompt(SliceLen(context_len,
                               MAX_CONTEXT_LENGTH - question_len - TEMPLATE_BUFFER),
                      question_len)
    ELSE FormatPrompt(context_len, question_len)

PromptQuestions == {0, 2, 100, 1799, 1800, 1801, 1837, 1838, 2500}
PromptContexts == {0, 5, 37, 1000, 1735, 1736, 1837, 2000, 2400}

PromptInit ==
    /\ agentIdle
    /\ chunkIdle
    /\ retryIdle
    /\ fn_in \in [question : PromptQuestions, context : PromptContexts]

\* generate_answer(question, context) up to the generation call
PromptCall ==
    /\ last.op = "none"
    /\ \E prompt \in {build_prompt(fn_in.question, fn_in.context)} :
           last' = [op |-> "generate_answer", prompt |-> prompt]
    /\ UNCHANGED <<chunks, chunk_embeddings, embeddings_cache, OFFLINE_MODE, embedLog,
                   rk_in, session, lastGood, restVars>>

PromptNext == PromptCall

SpecPrompt == PromptInit /\ [][PromptNext]_vars

\* C25: the prompt handed to the generation collaborator holds the question
\* in full and is at most MAX_CONTEXT_LENGTH characters long; when the
\* untruncated prompt would be longer, only the context is shortened, to the
\* room left after the question and the 200-character buffer, to nothing when
\* no room is left.
C25_PromptWithinLimit ==
    last.op = "generate_answer" =>
        /\ last.prompt.question = fn_in.question
        /\ last.prompt.length <= MAX_CONTEXT_LENGTH
        /\ last.prompt.context =
              IF TEMPLATE_LENGTH + fn_in.context + fn_in.question > MAX_CONTEXT_LENGTH
              THEN Min(fn_in.context,
                       Max(0, MAX_CONTEXT_LENGTH - fn_in.question - TEMPLATE_BUFFER))
              ELSE fn_in.context

\* the parsed lines are in time order
LinesInTimeOrder ==
    \A k \in 1..(Len(ck_segments) - 1) :
        ck_segments[k].start_time <= ck_segments[k + 1].start_time

\* C26: when the timestamps of the parsed lines do not decrease, the emitted
\* chunks have non-decreasing start_time and non-decreasing end_time in
\* emission order, for every target size and overlap fraction.
C26_ChunkTimesInOrder ==
    LinesInTimeOrder =>
        \A k \in 1..(Len(ck_chunks) - 1) :
            /\ ck_chunks[k].start_time <= ck_chunks[k + 1].start_time
            /\ ck_chunks[k].end_time <= ck_chunks[k + 1].end_time

\* a finished run over lines in time order, not all at one time, whose second
\* chunk re-includes a line of the first
C26_Witness ==
    /\ ck_pc = "done"
    /\ LinesInTimeOrder
    /\ Len(ck_windows) >= 2
    /\ ck_windows[1][2] - ck_windows[1][1] >= 2
    /\ ck_windows[2][1] < ck_windows[1][2]
    /\ ck_chunks[1].start_time < ck_chunks[1].end_time

\* segment k (0-based) is a source line of the w-th emitted chunk
InWindow(k, w) == ck_windows[w][1] <= k /\ k < ck_windows[w][2]

\* C29: every chunk other than the first holds at least one source line that
\* the chunk emitted before it does not hold.
C29_EveryChunkAddsALine ==
    \A w \in 2..Len(ck_windows) :
        \E k \in 0..(Len(ck_segments) - 1) : InWindow(k, w) /\ ~InWindow(k, w - 1)

\* C27: whenever answer_question returns the fixed not-found response as its
\* answer text, the citation list it returns is empty, whether the response
\* comes from the retrieval or from the post-processing of the generated
\* text.
C27_NotFoundHasNoCitations ==
    (last.op = "answer_question" /\ last.answer.text = NOT_FOUND)
        => last.citations = <<>>

\* C28: every citation returned by answer_question, in the citation list and
\* appended to the answer text, belongs to a chunk whose block is in the
\* context prepared for the generation call.  The citations follow the ranked
\* list and the context holds the blocks of a prefix of that list, so the
\* k-th citation's chunk has its block in the context when the context has a
\* k-th block, which then carries that citation.
C28_CitedChunksAreInContext ==
    last.op = "answer_question" =>
        /\ \A k \in 1..Len(last.citations) :
              /\ k <= Len(last.context)
              /\ last.context[k].citation = last.citations[k]
        /\ \A a \in 1..Len(last.answer.appended) :
              \E k \in 1..Len(last.context) :
                  last.context[k].citation = last.answer.appended[a]

\* C30: whenever the transcript source can supply segments for the URL given
\* to process_video, and the URL is not the demo video's own, the result and
\* the index are built from those segments: the acquisition tag names the
\* transcript source, not the demo data.
C30_SourceSegmentsAreUsed ==
    (/\ last.op = "process_video"
     /\ last.url # DEMO_URL
     /\ last.fetch.ok
     /\ last.fetch.data # <<>>)
        => last.method = "transcript_api"

====
